---- MODULE Spec2Model ----
(***************************************************************************)
(* Model of the iso8583-core message codec: the tri-level presence bitmap  *)
(* (src/bitmap_simd.rs, re-exported as crate::bitmap in src/lib.rs:68),    *)
(* the field definition table (src/field.rs), the MTI (src/mti.rs), the    *)
(* required-field validator (src/validation.rs) and the message            *)
(* parse / serialize / build pipeline (src/message.rs).                    *)
(*                                                                         *)
(* Bytes are integers 0..255; a byte slice, a String (its UTF-8 bytes) and *)
(* a Vec<u8> are sequences of bytes.  An 8-byte bitmap block is a sequence *)
(* of 8 bytes; Option::None for a block is the empty sequence.             *)
(***************************************************************************)
EXTENDS Integers, Sequences, FiniteSets, TLC

VARIABLES
    bm,       \* bitmap spec: the Bitmap under test
    lastOp,   \* bitmap spec: the last call made on bm and its outcome
    api,      \* message spec: "builder" (MessageBuilder) or "message" (ISO8583Message)
    msg,      \* message spec: the message being built / edited
    phase,    \* message spec: position of the caller
    wire,     \* message spec: bytes produced by to_bytes
    buildErr, \* message spec: 0, or the N of build()'s MissingRequiredField(N)
    parsed,   \* message spec: result of from_bytes(wire)
    buf,      \* parse spec: the input buffer
    pst,      \* parse spec: the state of from_bytes on buf
    mt,       \* MTI spec: a MessageType, where it came from and its strings
    enc,      \* encoding spec: an encoding call, its input and its results
    pan,      \* PAN spec: the string given to validate_pan and the result
    look,     \* lookup spec: a field number and the definitions found for it
    bv,       \* two-bitmap spec: the bit-vector Bitmap of src/bitmap.rs
    stan      \* STAN spec: the shared counter, the threads and the strings returned

vars == <<bm, lastOp, api, msg, phase, buildErr, wire, parsed, buf, pst, mt, enc, pan, look, bv, stan>>

----------------------------------------------------------------------------
(* Generic helpers                                                         *)

\* Rust slice bytes[a..b] (0-based, half-open); callers check SliceOk first.
Slice(bytes, a, b) == SubSeq(bytes, a + 1, b)

\* bytes[a..b] panics unless a <= b <= len.
SliceOk(bytes, a, b) == a <= b /\ b <= Len(bytes)

\* n copies of byte b
Repeat(b, n) == [i \in 1..n |-> b]

\* the members of a finite set of numbers in ascending order
RECURSIVE SortedKeys(_)
SortedKeys(S) ==
    IF S = {} THEN <<>>
    ELSE LET lo == CHOOSE x \in S : \A y \in S : x <= y
         IN  <<lo>> \o SortedKeys(S \ {lo})

NoneBlock == <<>>

ZeroBlock == Repeat(0, 8)

IsSome(block) == block # NoneBlock

----------------------------------------------------------------------------
(* Bitmap engine: src/bitmap_simd.rs                                       *)

\* is_set_in_bitmap: bitmap[byte_index] & (1 << bit_index) != 0
is_set_in_bitmap(bitmap, field) ==
    IF field = 0 \/ field > 64 THEN FALSE
    ELSE LET byte_index == (field - 1) \div 8
             bit_index  == 7 - ((field - 1) % 8)
         IN  (bitmap[byte_index + 1] \div (2 ^ bit_index)) % 2 = 1

\* set_in_bitmap: bitmap[byte_index] |= 1 << bit_index
set_in_bitmap(bitmap, field) ==
    IF field = 0 \/ field > 64 THEN bitmap
    ELSE LET byte_index == (field - 1) \div 8
             bit_index  == 7 - ((field - 1) % 8)
             old        == bitmap[byte_index + 1]
         IN  IF (old \div (2 ^ bit_index)) % 2 = 1 THEN bitmap
             ELSE [bitmap EXCEPT ![byte_index + 1] = old + 2 ^ bit_index]

\* clear_in_bitmap: bitmap[byte_index] &= !(1 << bit_index)
clear_in_bitmap(bitmap, field) ==
    IF field = 0 \/ field > 64 THEN bitmap
    ELSE LET byte_index == (field - 1) \div 8
             bit_index  == 7 - ((field - 1) % 8)
             old        == bitmap[byte_index + 1]
         IN  IF (old \div (2 ^ bit_index)) % 2 = 1
             THEN [bitmap EXCEPT ![byte_index + 1] = old - 2 ^ bit_index]
             ELSE bitmap

Bitmap_new == [primary |-> ZeroBlock, secondary |-> NoneBlock, tertiary |-> NoneBlock]

Bitmap_is_set(b, field) ==
    IF field = 0 \/ field > 192 THEN FALSE
    ELSE IF field <= 64 THEN is_set_in_bitmap(b.primary, field)
    ELSE IF field <= 128
         THEN IF IsSome(b.secondary) THEN is_set_in_bitmap(b.secondary, field - 64)
              ELSE FALSE
    ELSE IF IsSome(b.tertiary) THEN is_set_in_bitmap(b.tertiary, field - 128)
         ELSE FALSE

\* Bitmap::set without the range check of lines 88-90: an out-of-range
\* field falls into the arm of its nearest block
Bitmap_set_unchecked(b, field) ==
    IF field = 0 THEN
        [ok |-> TRUE, bm |-> [b EXCEPT !.primary = set_in_bitmap(b.primary, 1)]]
    ELSE IF field > 192 THEN
        [ok |-> TRUE,
         bm |-> [b EXCEPT !.tertiary = set_in_bitmap(ZeroBlock, field - 192)]]
    ELSE IF field = 1 THEN
        [ok |-> TRUE,
         bm |-> [b EXCEPT !.primary = set_in_bitmap(b.primary, 1),
                          !.secondary = IF IsSome(b.secondary) THEN b.secondary
                                        ELSE ZeroBlock]]
    ELSE IF field <= 64 THEN
        [ok |-> TRUE, bm |-> [b EXCEPT !.primary = set_in_bitmap(b.primary, field)]]
    ELSE
        [ok |-> TRUE, bm |-> [b EXCEPT !.secondary = ZeroBlock]]

\* Bitmap::set; the result is [ok, bm]: Err leaves the bitmap as it was.
Bitmap_set(b, field) ==
    IF field = 0 \/ field > 192 THEN [ok |-> FALSE, bm |-> b]
    ELSE IF field = 1 THEN
        [ok |-> TRUE,
         bm |-> [b EXCEPT !.primary = set_in_bitmap(b.primary, 1),
                          !.secondary = IF IsSome(b.secondary) THEN b.secondary
                                        ELSE ZeroBlock]]
    ELSE IF field <= 64 THEN
        [ok |-> TRUE, bm |-> [b EXCEPT !.primary = set_in_bitmap(b.primary, field)]]
    ELSE IF field = 65 THEN
        LET b1 == IF IsSome(b.secondary) THEN b
                  ELSE [b EXCEPT !.secondary = ZeroBlock,
                                 !.primary = set_in_bitmap(b.primary, 1)]
        IN  [ok |-> TRUE,
             bm |-> [b1 EXCEPT !.secondary = set_in_bitmap(b1.secondary, 1),
                               !.tertiary = IF IsSome(b1.tertiary) THEN b1.tertiary
                                            ELSE ZeroBlock]]
    ELSE IF field <= 128 THEN
        LET b1 == IF IsSome(b.secondary) THEN b
                  ELSE [b EXCEPT !.secondary = ZeroBlock,
                                 !.primary = set_in_bitmap(b.primary, 1)]
        IN  [ok |-> TRUE,
             bm |-> [b1 EXCEPT !.secondary = set_in_bitmap(b1.secondary, field - 64)]]
    ELSE
        LET b1 == IF IsSome(b.secondary) THEN b
                  ELSE [b EXCEPT !.secondary = ZeroBlock,
                                 !.primary = set_in_bitmap(b.primary, 1)]
            b2 == IF IsSome(b1.tertiary) THEN b1
                  ELSE [b1 EXCEPT !.tertiary = ZeroBlock,
                                  !.secondary = set_in_bitmap(b1.secondary, 1)]
        IN  [ok |-> TRUE,
             bm |-> [b2 EXCEPT !.tertiary = set_in_bitmap(b2.tertiary, field - 128)]]

\* Bitmap::clear
Bitmap_clear(b, field) ==
    IF field = 0 \/ field > 192 THEN [ok |-> FALSE, bm |-> b]
    ELSE IF field <= 64 THEN
        [ok |-> TRUE, bm |-> [b EXCEPT !.primary = clear_in_bitmap(b.primary, field)]]
    ELSE IF field <= 128 THEN
        [ok |-> TRUE,
         bm |-> IF IsSome(b.secondary)
                THEN [b EXCEPT !.secondary = clear_in_bitmap(b.secondary, field - 64)]
                ELSE b]
    ELSE
        [ok |-> TRUE,
         bm |-> IF IsSome(b.tertiary)
                THEN [b EXCEPT !.tertiary = clear_in_bitmap(b.tertiary, field - 128)]
                ELSE b]

\* for field in 1..=64 { if is_set_in_bitmap(block, field) { push field + base } }
BlockFields(block, base) ==
    SortedKeys({n + base : n \in {f \in 1..64 : is_set_in_bitmap(block, f)}})

\* Bitmap::get_set_fields: the first `count` entries of the returned array.
get_set_fields(b) ==
    BlockFields(b.primary, 0)
        \o (IF IsSome(b.secondary) THEN BlockFields(b.secondary, 64) ELSE <<>>)
        \o (IF IsSome(b.tertiary) THEN BlockFields(b.tertiary, 128) ELSE <<>>)

\* Bitmap::to_bytes: the first `len` bytes of the returned array.
Bitmap_to_bytes(b) ==
    b.primary
        \o (IF IsSome(b.secondary) THEN b.secondary ELSE <<>>)
        \o (IF IsSome(b.tertiary) THEN b.tertiary ELSE <<>>)

\* Bitmap::from_bytes
Bitmap_from_bytes(bytes) ==
    IF Len(bytes) < 8 THEN [ok |-> FALSE, bm |-> Bitmap_new]
    ELSE LET p  == [primary |-> Slice(bytes, 0, 8), secondary |-> NoneBlock,
                    tertiary |-> NoneBlock]
             s  == IF Bitmap_is_set(p, 1) /\ Len(bytes) >= 16
                   THEN [p EXCEPT !.secondary = Slice(bytes, 8, 16)]
                   ELSE p
             t  == IF IsSome(s.secondary) /\ Bitmap_is_set(s, 65) /\ Len(bytes) >= 24
                   THEN [s EXCEPT !.tertiary = Slice(bytes, 16, 24)]
                   ELSE s
         IN  [ok |-> TRUE, bm |-> t]

\* hex::encode: two lowercase hex digits (ASCII codes) per byte
HexDigit(n) == IF n < 10 THEN 48 + n ELSE 87 + n

hex_encode(bytes) ==
    [i \in 1..(2 * Len(bytes)) |->
        LET byte == bytes[(i + 1) \div 2]
        IN  IF i % 2 = 1 THEN HexDigit(byte \div 16) ELSE HexDigit(byte % 16)]

\* value of one hex digit, -1 when the character is not a hex digit
HexVal(c) ==
    IF c >= 48 /\ c <= 57 THEN c - 48
    ELSE IF c >= 97 /\ c <= 102 THEN c - 87
    ELSE IF c >= 65 /\ c <= 70 THEN c - 55
    ELSE -1

\* hex::decode
hex_decode(str) ==
    IF Len(str) % 2 # 0 \/ \E i \in 1..Len(str) : HexVal(str[i]) < 0
    THEN [ok |-> FALSE, bytes |-> <<>>]
    ELSE [ok |-> TRUE,
          bytes |-> [i \in 1..(Len(str) \div 2) |->
                        16 * HexVal(str[2 * i - 1]) + HexVal(str[2 * i])]]

\* Bitmap::from_hex
Bitmap_from_hex(hex_str) ==
    LET d == hex_decode(hex_str)
    IN  IF ~d.ok THEN [ok |-> FALSE, bm |-> Bitmap_new]
        ELSE Bitmap_from_bytes(d.bytes)

----------------------------------------------------------------------------
(* Field definitions: src/field.rs                                         *)

Def(n, t, k, l) == [number |-> n, field_type |-> t, kind |-> k, len |-> l]

\* get_field_definitions(): the vector as written, entry i at index i + 1.
get_field_definitions ==
  <<
     Def(0, "Numeric", "Fixed", 0),
     Def(1, "Binary", "Fixed", 8),
     Def(2, "Numeric", "LLVar", 19),
     Def(3, "Numeric", "Fixed", 6),
     Def(4, "Numeric", "Fixed", 12),
     Def(5, "Numeric", "Fixed", 12),
     Def(6, "Numeric", "Fixed", 12),
     Def(7, "Numeric", "Fixed", 10),
     Def(8, "Numeric", "Fixed", 8),
     Def(9, "Numeric", "Fixed", 8),
     Def(10, "Numeric", "Fixed", 8),
     Def(11, "Numeric", "Fixed", 6),
     Def(12, "Numeric", "Fixed", 6),
     Def(13, "Numeric", "Fixed", 4),
     Def(14, "Numeric", "Fixed", 4),
     Def(15, "Numeric", "Fixed", 4),
     Def(16, "Numeric", "Fixed", 4),
     Def(17, "Numeric", "Fixed", 4),
     Def(18, "Numeric", "Fixed", 4),
     Def(19, "Numeric", "Fixed", 3),
     Def(20, "Numeric", "Fixed", 3),
     Def(21, "Numeric", "Fixed", 3),
     Def(22, "Numeric", "Fixed", 3),
     Def(23, "Numeric", "Fixed", 3),
     Def(24, "Numeric", "Fixed", 3),
     Def(25, "Numeric", "Fixed", 2),
     Def(26, "Numeric", "Fixed", 2),
     Def(27, "Numeric", "Fixed", 1),
     Def(28, "Numeric", "Fixed", 8),
     Def(29, "Numeric", "Fixed", 8),
     Def(30, "Numeric", "Fixed", 8),
     Def(31, "Numeric", "Fixed", 8),
     Def(32, "Numeric", "LLVar", 11),
     Def(33, "Numeric", "LLVar", 11),
     Def(34, "Numeric", "LLVar", 28),
     Def(35, "Track2", "LLVar", 37),
     Def(36, "Track3", "LLLVar", 104),
     Def(37, "AlphaNumeric", "Fixed", 12),
     Def(38, "AlphaNumeric", "Fixed", 6),
     Def(39, "AlphaNumeric", "Fixed", 2),
     Def(40, "AlphaNumeric", "Fixed", 3),
     Def(41, "AlphaNumericSpecial", "Fixed", 8),
     Def(42, "AlphaNumericSpecial", "Fixed", 15),
     Def(43, "AlphaNumericSpecial", "Fixed", 40),
     Def(44, "AlphaNumericSpecial", "LLVar", 25),
     Def(45, "AlphaNumericSpecial", "LLVar", 76),
     Def(46, "AlphaNumericSpecial", "LLLVar", 999),
     Def(47, "AlphaNumericSpecial", "LLLVar", 999),
     Def(48, "AlphaNumericSpecial", "LLLVar", 999),
     Def(49, "AlphaNumeric", "Fixed", 3),
     Def(50, "AlphaNumeric", "Fixed", 3),
     Def(51, "AlphaNumeric", "Fixed", 3),
     Def(52, "Binary", "Fixed", 8),
     Def(53, "Numeric", "Fixed", 16),
     Def(54, "AlphaNumericSpecial", "LLLVar", 120),
     Def(55, "AlphaNumericSpecial", "LLLVar", 999),
     Def(64, "Binary", "Fixed", 8),
     Def(65, "Binary", "Fixed", 8),
     Def(66, "Numeric", "Fixed", 1),
     Def(67, "Numeric", "Fixed", 2),
     Def(68, "Numeric", "Fixed", 3),
     Def(69, "Numeric", "Fixed", 3),
     Def(70, "Numeric", "Fixed", 3),
     Def(71, "Numeric", "Fixed", 4),
     Def(72, "Numeric", "Fixed", 4),
     Def(73, "Numeric", "Fixed", 6),
     Def(74, "Numeric", "Fixed", 10),
     Def(75, "Numeric", "Fixed", 10),
     Def(76, "Numeric", "Fixed", 10),
     Def(77, "Numeric", "Fixed", 10),
     Def(78, "Numeric", "Fixed", 10),
     Def(79, "Numeric", "Fixed", 10),
     Def(80, "Numeric", "Fixed", 10),
     Def(81, "Numeric", "Fixed", 10),
     Def(82, "Numeric", "Fixed", 12),
     Def(83, "Numeric", "Fixed", 12),
     Def(84, "Numeric", "Fixed", 12),
     Def(85, "Numeric", "Fixed", 12),
     Def(86, "Numeric", "Fixed", 16),
     Def(87, "Numeric", "Fixed", 16),
     Def(88, "Numeric", "Fixed", 16),
     Def(89, "Numeric", "Fixed", 16),
     Def(90, "Numeric", "Fixed", 42),
     Def(91, "AlphaNumeric", "Fixed", 1),
     Def(92, "AlphaNumeric", "Fixed", 2),
     Def(93, "AlphaNumeric", "Fixed", 5),
     Def(94, "AlphaNumeric", "Fixed", 7),
     Def(95, "AlphaNumeric", "Fixed", 42),
     Def(96, "Binary", "Fixed", 8),
     Def(97, "Numeric", "Fixed", 16),
     Def(98, "AlphaNumericSpecial", "Fixed", 25),
     Def(99, "Numeric", "LLVar", 11),
     Def(100, "Numeric", "LLVar", 11),
     Def(101, "AlphaNumericSpecial", "LLVar", 17),
     Def(102, "AlphaNumericSpecial", "LLVar", 28),
     Def(103, "AlphaNumericSpecial", "LLVar", 28),
     Def(104, "AlphaNumericSpecial", "LLLVar", 100),
     Def(105, "AlphaNumericSpecial", "LLLVar", 999),
     Def(106, "AlphaNumericSpecial", "LLLVar", 999),
     Def(107, "AlphaNumericSpecial", "LLLVar", 999),
     Def(108, "AlphaNumericSpecial", "LLLVar", 999),
     Def(109, "AlphaNumericSpecial", "LLLVar", 999),
     Def(110, "AlphaNumericSpecial", "LLLVar", 999),
     Def(111, "AlphaNumericSpecial", "LLLVar", 999),
     Def(112, "AlphaNumericSpecial", "LLLVar", 999),
     Def(113, "AlphaNumericSpecial", "LLLVar", 999),
     Def(114, "AlphaNumericSpecial", "LLLVar", 999),
     Def(115, "AlphaNumericSpecial", "LLLVar", 999),
     Def(116, "AlphaNumericSpecial", "LLLVar", 999),
     Def(117, "AlphaNumericSpecial", "LLLVar", 999),
     Def(118, "AlphaNumericSpecial", "LLLVar", 999),
     Def(119, "AlphaNumericSpecial", "LLLVar", 999),
     Def(120, "AlphaNumericSpecial", "LLLVar", 999),
     Def(121, "AlphaNumericSpecial", "LLLVar", 999),
     Def(122, "AlphaNumericSpecial", "LLLVar", 999),
     Def(123, "AlphaNumericSpecial", "LLLVar", 999),
     Def(124, "AlphaNumericSpecial", "LLLVar", 255),
     Def(125, "AlphaNumericSpecial", "LLLVar", 50),
     Def(126, "AlphaNumericSpecial", "LLLVar", 6),
     Def(127, "AlphaNumericSpecial", "LLLVar", 999),
     Def(128, "Binary", "Fixed", 8)
  >>

\* Field::definition: defs.get(num) or the "Unknown" fallback
definition(num) ==
    IF num + 1 <= Len(get_field_definitions) THEN get_field_definitions[num + 1]
    ELSE Def(num, "AlphaNumericSpecial", "LLLVar", 999)

\* Field::from_number: Ok for 1..=128
from_number_ok(num) == num # 0 /\ num <= 128

----------------------------------------------------------------------------
(* Text helpers: std::str::from_utf8, str::parse::<usize>, format!         *)

IsCont(b) == b >= 128 /\ b <= 191

\* length of the UTF-8 sequence a lead byte starts, 0 for a byte that starts none
SeqLen(b) ==
    IF b <= 127 THEN 1
    ELSE IF b >= 194 /\ b <= 223 THEN 2
    ELSE IF b >= 224 /\ b <= 239 THEN 3
    ELSE IF b >= 240 /\ b <= 244 THEN 4
    ELSE 0

\* the range a lead byte allows for the byte that follows it
SecondLo(b) == IF b = 224 THEN 160 ELSE IF b = 240 THEN 144 ELSE 128

SecondHi(b) == IF b = 237 THEN 159 ELSE IF b = 244 THEN 143 ELSE 191

\* std::str::from_utf8(bytes).is_ok(): every byte that is not a continuation
\* byte starts a complete well-formed sequence, and every continuation byte
\* belongs to the sequence started by a lead byte before it
from_utf8_ok(bytes) ==
    LET n == Len(bytes)
    IN  \A i \in 1..n :
            IF IsCont(bytes[i])
            THEN \E k \in 1..3 :
                     /\ i - k >= 1
                     /\ SeqLen(bytes[i - k]) > k
                     /\ ~IsCont(bytes[i - k])
                     /\ \A j \in (i - k + 1)..(i - 1) : IsCont(bytes[j])
            ELSE /\ SeqLen(bytes[i]) > 0
                 /\ i + SeqLen(bytes[i]) - 1 <= n
                 /\ \A j \in (i + 1)..(i + SeqLen(bytes[i]) - 1) : IsCont(bytes[j])
                 /\ SeqLen(bytes[i]) > 1 =>
                        (bytes[i + 1] >= SecondLo(bytes[i]) /\ bytes[i + 1] <= SecondHi(bytes[i]))

IsAsciiDigit(c) == c >= 48 /\ c <= 57

\* decimal value of a sequence of ASCII digits
DecValue(digits) ==
    LET D[i \in 0..Len(digits)] ==
            IF i = 0 THEN 0 ELSE 10 * D[i - 1] + (digits[i] - 48)
    IN  D[Len(digits)]

\* str::parse::<usize>(): an optional '+' and then at least one ASCII digit
parse_usize(str) ==
    LET body == IF Len(str) > 0 /\ str[1] = 43 THEN Tail(str) ELSE str
    IN  IF Len(body) = 0 \/ \E i \in 1..Len(body) : ~IsAsciiDigit(body[i])
        THEN [ok |-> FALSE, value |-> 0]
        ELSE [ok |-> TRUE, value |-> DecValue(body)]

\* format!("{}", n) for an unsigned n: its decimal digits as ASCII
RECURSIVE ToDec(_)
ToDec(n) == IF n < 10 THEN <<48 + n>> ELSE Append(ToDec(n \div 10), 48 + (n % 10))

\* a length prefix of exactly w digits: the last w decimal digits of n
FormatZeroPad_exact_width(n, w) ==
    LET d == Repeat(48, w) \o ToDec(n)
    IN  SubSeq(d, Len(d) - w + 1, Len(d))

\* format!("{:0w$}", n): decimal digits, zero-padded on the left to at least w
FormatZeroPad(n, w) ==
    LET d == ToDec(n)
    IN  IF Len(d) >= w THEN d ELSE Repeat(48, w - Len(d)) \o d

----------------------------------------------------------------------------
(* Errors: src/error.rs.  field is 0 when the variant carries no field.    *)

Err(type, field, expected, actual) ==
    [type |-> type, field |-> field, expected |-> expected, actual |-> actual]

NoErr == Err("None", 0, 0, 0)

message_too_short(expected, actual) == Err("MessageTooShort", 0, expected, actual)

field_length_mismatch(field, expected, actual) ==
    Err("FieldLengthMismatch", field, expected, actual)

invalid_field_value(field) == Err("InvalidFieldValue", field, 0, 0)

EncodingError(field) == Err("EncodingError", field, 0, 0)

----------------------------------------------------------------------------
(* MTI: src/mti.rs.  class, function and origin are held as their digit    *)
(* (the enums' discriminants, from_digit / to_digit map 0..9 one to one).  *)

Mti(v, c, f, o) == [version |-> v, class |-> c, function |-> f, origin |-> o]

AUTHORIZATION_REQUEST == Mti(0, 1, 0, 0)

AUTHORIZATION_RESPONSE == Mti(0, 1, 1, 0)

NETWORK_MANAGEMENT_REQUEST == Mti(0, 8, 0, 0)

\* MessageType::from_str on a valid UTF-8 string s
MessageType_from_str(s) ==
    IF Len(s) # 4 \/ \E i \in 1..Len(s) : ~IsAsciiDigit(s[i])
    THEN [ok |-> FALSE, mti |-> AUTHORIZATION_REQUEST]
    ELSE [ok |-> TRUE, mti |-> Mti(s[1] - 48, s[2] - 48, s[3] - 48, s[4] - 48)]

\* MessageType::from_bytes
MessageType_from_bytes(bytes) ==
    IF Len(bytes) < 4 \/ ~from_utf8_ok(Slice(bytes, 0, 4))
    THEN [ok |-> FALSE, mti |-> AUTHORIZATION_REQUEST]
    ELSE MessageType_from_str(Slice(bytes, 0, 4))

\* MessageType::to_string
MessageType_to_string(m) ==
    ToDec(m.version) \o ToDec(m.class) \o ToDec(m.function) \o ToDec(m.origin)

\* MessageType::to_bytes
MessageType_to_bytes(m) == MessageType_to_string(m)

is_request(m) == m.function = 0

is_response(m) == m.function = 1

----------------------------------------------------------------------------
(* Field values: src/field.rs FieldValue                                   *)

Str(s) == [kind |-> "String", data |-> s]

Bin(b) == [kind |-> "Binary", data |-> b]

----------------------------------------------------------------------------
(* Message codec, parsing: src/message.rs                                  *)

PfOk(value, consumed) ==
    [kind |-> "ok", value |-> value, consumed |-> consumed, err |-> NoErr]

PfErr(e) == [kind |-> "err", value |-> Str(<<>>), consumed |-> 0, err |-> e]

PfPanic == [kind |-> "panic", value |-> Str(<<>>), consumed |-> 0, err |-> NoErr]

\* the value read from bytes[from..to] for a field of the given type
parse_value(bytes, from, to, def) ==
    IF ~SliceOk(bytes, from, to) THEN PfPanic
    ELSE IF def.field_type = "Binary" THEN PfOk(Bin(Slice(bytes, from, to)), to)
    ELSE IF ~from_utf8_ok(Slice(bytes, from, to)) THEN PfErr(EncodingError(def.number))
    ELSE PfOk(Str(Slice(bytes, from, to)), to)

\* parse_var without the `length > max_len` check
parse_var_no_max(bytes, def, w) ==
    IF Len(bytes) < w THEN PfErr(message_too_short(w, Len(bytes)))
    ELSE IF ~SliceOk(bytes, 0, w) THEN PfPanic
    ELSE IF ~from_utf8_ok(Slice(bytes, 0, w)) THEN PfErr(EncodingError(def.number))
    ELSE LET p == parse_usize(Slice(bytes, 0, w))
         IN  IF ~p.ok THEN PfErr(EncodingError(def.number))
             ELSE IF Len(bytes) < w + p.value
                  THEN PfErr(message_too_short(w + p.value, Len(bytes)))
             ELSE parse_value(bytes, w, w + p.value, def)

\* the LLVar / LLLVar branches of parse_field; w is the prefix width (2 or 3)
parse_var(bytes, def, w) ==
    IF Len(bytes) < w THEN PfErr(message_too_short(w, Len(bytes)))
    ELSE IF ~SliceOk(bytes, 0, w) THEN PfPanic
    ELSE IF ~from_utf8_ok(Slice(bytes, 0, w)) THEN PfErr(EncodingError(def.number))
    ELSE LET p == parse_usize(Slice(bytes, 0, w))
         IN  IF ~p.ok THEN PfErr(EncodingError(def.number))
             ELSE IF p.value > def.len THEN PfErr(invalid_field_value(def.number))
             ELSE IF Len(bytes) < w + p.value
                  THEN PfErr(message_too_short(w + p.value, Len(bytes)))
             ELSE parse_value(bytes, w, w + p.value, def)

\* parse_field without the `bytes.len() < len` check of the Fixed branch
parse_field_unchecked(bytes, def) ==
    IF Len(bytes) = 0 THEN PfErr(message_too_short(1, 0))
    ELSE IF def.kind = "Fixed" THEN parse_value(bytes, 0, def.len, def)
    ELSE IF def.kind = "LLVar" THEN parse_var(bytes, def, 2)
    ELSE parse_var(bytes, def, 3)

\* ISO8583Message::parse_field
parse_field(bytes, def) ==
    IF Len(bytes) = 0 THEN PfErr(message_too_short(1, 0))
    ELSE IF def.kind = "Fixed" THEN
        IF Len(bytes) < def.len
        THEN PfErr(field_length_mismatch(def.number, def.len, Len(bytes)))
        ELSE parse_value(bytes, 0, def.len, def)
    ELSE IF def.kind = "LLVar" THEN parse_var(bytes, def, 2)
    ELSE parse_var(bytes, def, 3)

EmptyFields == <<>>

\* HashMap::insert on the field map (a function from the present numbers)
MapInsert(fields, k, v) ==
    [n \in (DOMAIN fields) \cup {k} |-> IF n = k THEN v ELSE fields[n]]

\* HashMap::remove
MapRemove(fields, k) == [n \in (DOMAIN fields) \ {k} |-> fields[n]]

\* for field_num in 65..=128 { if secondary_bitmap.is_set(field_num) { bitmap.set(field_num)? } }
merge_secondary(bitmap, secondary_bitmap) ==
    LET hits == SortedKeys({n \in 65..128 : Bitmap_is_set(secondary_bitmap, n)})
        M[i \in 0..Len(hits)] ==
            IF i = 0 THEN [ok |-> TRUE, bm |-> bitmap]
            ELSE LET prev == M[i - 1]
                 IN  IF prev.ok THEN Bitmap_set(prev.bm, hits[i]) ELSE prev
    IN  M[Len(hits)]

\* The state of a call of from_bytes: pc is the position in the function
\* ("start", "secondary", "fields") or its outcome ("ok", "err", "panic").
ParseState(pc, offset, mti, bitmap, fields, todo, err, lastField, lastOffset) ==
    [pc |-> pc, offset |-> offset, mti |-> mti, bitmap |-> bitmap,
     fields |-> fields, todo |-> todo, err |-> err,
     lastField |-> lastField, lastOffset |-> lastOffset]

ParseInit ==
    ParseState("start", 0, AUTHORIZATION_REQUEST, Bitmap_new, EmptyFields, <<>>,
               NoErr, 0, 0)

ParseFail(st, e) == [st EXCEPT !.pc = "err", !.err = e]

ParsePanic(st) == [st EXCEPT !.pc = "panic"]

\* parse_header reading the MTI before it checks the 12-byte minimum
parse_header_mti_first(bytes, st) ==
    IF Len(bytes) >= 4 /\ ~MessageType_from_bytes(Slice(bytes, 0, 4)).ok
    THEN ParseFail(st, Err("InvalidMTI", 0, 0, 0))
    ELSE IF Len(bytes) < 12 THEN ParseFail(st, message_too_short(12, Len(bytes)))
    ELSE LET m == MessageType_from_bytes(Slice(bytes, 0, 4))
             b == Bitmap_from_hex(hex_encode(Slice(bytes, 4, 12)))
         IN  [st EXCEPT !.pc = "secondary", !.mti = m.mti,
                        !.bitmap = b.bm, !.offset = 12]

\* from_bytes, lines 40-54: length check, MTI, primary bitmap
parse_header(bytes, st) ==
    IF Len(bytes) < 12 THEN ParseFail(st, message_too_short(12, Len(bytes)))
    ELSE IF ~SliceOk(bytes, 0, 4) THEN ParsePanic(st)
    ELSE LET m == MessageType_from_bytes(Slice(bytes, 0, 4))
         IN  IF ~m.ok THEN ParseFail(st, Err("InvalidMTI", 0, 0, 0))
             ELSE IF ~SliceOk(bytes, 4, 12) THEN ParsePanic(st)
             ELSE LET b == Bitmap_from_hex(hex_encode(Slice(bytes, 4, 12)))
                  IN  IF ~b.ok THEN ParseFail(st, Err("Custom", 0, 0, 0))
                      ELSE [st EXCEPT !.pc = "secondary", !.mti = m.mti,
                                      !.bitmap = b.bm, !.offset = 12]

\* from_bytes, lines 56-75: secondary bitmap, then the list of set fields
parse_secondary(bytes, st) ==
    IF Bitmap_is_set(st.bitmap, 1) THEN
        IF Len(bytes) < st.offset + 8
        THEN ParseFail(st, message_too_short(st.offset + 8, Len(bytes)))
        ELSE IF ~SliceOk(bytes, st.offset, st.offset + 8) THEN ParsePanic(st)
        ELSE LET s == Bitmap_from_hex(hex_encode(Slice(bytes, st.offset, st.offset + 8)))
             IN  IF ~s.ok THEN ParseFail(st, Err("Custom", 0, 0, 0))
                 ELSE LET m == merge_secondary(st.bitmap, s.bm)
                      IN  IF ~m.ok THEN ParseFail(st, Err("Custom", 0, 0, 0))
                          ELSE [st EXCEPT !.pc = "fields", !.bitmap = m.bm,
                                          !.offset = st.offset + 8,
                                          !.todo = get_set_fields(m.bm)]
    ELSE [st EXCEPT !.pc = "fields", !.todo = get_set_fields(st.bitmap)]

\* from_bytes, lines 77-96: one iteration of the field loop, or the return
parse_next_field(bytes, st) ==
    IF st.todo = <<>> THEN [st EXCEPT !.pc = "ok"]
    ELSE LET field_num == Head(st.todo)
         IN  IF field_num = 1 \/ field_num = 65 THEN [st EXCEPT !.todo = Tail(st.todo)]
             ELSE IF ~from_number_ok(field_num)
                  THEN ParseFail(st, Err("InvalidFieldNumber", field_num, 0, 0))
             ELSE IF ~SliceOk(bytes, st.offset, Len(bytes)) THEN ParsePanic(st)
             ELSE LET r == parse_field(Slice(bytes, st.offset, Len(bytes)),
                                       definition(field_num))
                  IN  IF r.kind = "panic" THEN ParsePanic(st)
                      ELSE IF r.kind = "err"
                           THEN [ParseFail(st, r.err) EXCEPT !.lastField = field_num,
                                                             !.lastOffset = st.offset]
                      ELSE [st EXCEPT !.fields = MapInsert(st.fields, field_num, r.value),
                                      !.offset = st.offset + r.consumed,
                                      !.todo = Tail(st.todo),
                                      !.lastField = field_num,
                                      !.lastOffset = st.offset]

\* one step of from_bytes
from_bytes_step(bytes, st) ==
    IF st.pc = "start" THEN parse_header(bytes, st)
    ELSE IF st.pc = "secondary" THEN parse_secondary(bytes, st)
    ELSE IF st.pc = "fields" THEN parse_next_field(bytes, st)
    ELSE st

Finished(st) == st.pc \in {"ok", "err", "panic"}

RECURSIVE RunParse(_, _)
RunParse(bytes, st) ==
    IF Finished(st) THEN st ELSE RunParse(bytes, from_bytes_step(bytes, st))

\* ISO8583Message::from_bytes
from_bytes(bytes) == RunParse(bytes, ParseInit)

----------------------------------------------------------------------------
(* Message codec, serialization: src/message.rs                            *)

\* number of chars of a valid UTF-8 string (its non-continuation bytes)
CharCount(s) == Cardinality({i \in 1..Len(s) : ~IsCont(s[i])})

\* String::truncate(n) panics unless n lies on a char boundary
IsCharBoundary(s, n) == n = 0 \/ n >= Len(s) \/ ~IsCont(s[n + 1])

GenOk(bytes) == [panic |-> FALSE, bytes |-> bytes]

GenPanic == [panic |-> TRUE, bytes |-> <<>>]

\* ISO8583Message::generate_field
generate_field(field_num, value) ==
    LET def == definition(field_num)
        s   == value.data
    IN  IF def.kind = "Fixed" THEN
            IF value.kind = "String" THEN
                IF Len(s) < def.len THEN
                    IF def.field_type = "Numeric"
                    THEN GenOk(Repeat(48, def.len - CharCount(s)) \o s)
                    ELSE GenOk(s \o Repeat(32, def.len - CharCount(s)))
                ELSE IF Len(s) > def.len THEN
                    IF IsCharBoundary(s, def.len) THEN GenOk(Slice(s, 0, def.len))
                    ELSE GenPanic
                ELSE GenOk(s)
            ELSE IF Len(s) >= def.len THEN GenOk(Slice(s, 0, def.len))
                 ELSE GenOk(s \o Repeat(0, def.len - Len(s)))
        ELSE IF def.kind = "LLVar" THEN GenOk(FormatZeroPad(Len(s), 2) \o s)
        ELSE GenOk(FormatZeroPad(Len(s), 3) \o s)

\* ISO8583Message::new
Message_new(mti) == [mti |-> mti, fields |-> EmptyFields, bitmap |-> Bitmap_new]

\* the field loop of to_bytes without the `continue` for 1 and 65
fields_to_bytes_no_skip(fields) ==
    LET keys == SortedKeys(DOMAIN fields)
        G[i \in 0..Len(keys)] ==
            IF i = 0 THEN GenOk(<<>>)
            ELSE LET prev == G[i - 1]
                     g    == generate_field(keys[i], fields[keys[i]])
                 IN  IF prev.panic \/ g.panic THEN GenPanic
                     ELSE GenOk(prev.bytes \o g.bytes)
    IN  G[Len(keys)]

\* the field loop of to_bytes: keys in ascending order, 1 and 65 skipped
fields_to_bytes(fields) ==
    LET keys == SortedKeys(DOMAIN fields)
        G[i \in 0..Len(keys)] ==
            IF i = 0 THEN GenOk(<<>>)
            ELSE LET prev == G[i - 1]
                     n    == keys[i]
                 IN  IF prev.panic THEN GenPanic
                     ELSE IF n = 1 \/ n = 65 THEN prev
                     ELSE LET g == generate_field(n, fields[n])
                          IN  IF g.panic THEN GenPanic
                              ELSE GenOk(prev.bytes \o g.bytes)
    IN  G[Len(keys)]

\* ISO8583Message::to_bytes
to_bytes(m) ==
    LET f == fields_to_bytes(m.fields)
    IN  IF f.panic THEN GenPanic
        ELSE GenOk(MessageType_to_bytes(m.mti) \o Bitmap_to_bytes(m.bitmap) \o f.bytes)

\* ISO8583Message::set_field; field_num is a Field, so in 1..128
set_field(m, field_num, value) ==
    LET r == Bitmap_set(m.bitmap, field_num)
    IN  IF ~r.ok THEN [ok |-> FALSE, msg |-> m]
        ELSE [ok |-> TRUE,
              msg |-> [m EXCEPT !.bitmap = r.bm,
                                !.fields = MapInsert(m.fields, field_num, value)]]

\* remove_field that drops the value and leaves the bitmap bit set
remove_field_keeps_bit(m, field_num) ==
    [ok |-> TRUE, msg |-> [m EXCEPT !.fields = MapRemove(m.fields, field_num)]]

\* ISO8583Message::remove_field
remove_field(m, field_num) ==
    LET r == Bitmap_clear(m.bitmap, field_num)
    IN  IF ~r.ok THEN [ok |-> FALSE, msg |-> m]
        ELSE [ok |-> TRUE,
              msg |-> [m EXCEPT !.bitmap = r.bm,
                                !.fields = MapRemove(m.fields, field_num)]]

\* ISO8583Message::has_field
has_field(m, field_num) == field_num \in DOMAIN m.fields

\* validate_required_fields with LocalTransactionDate left out of the
\* common required fields
validate_required_fields_no_date(m) ==
    IF ~has_field(m, 3) THEN 3
    ELSE IF ~has_field(m, 11) THEN 11
    ELSE IF ~has_field(m, 12) THEN 12
    ELSE IF is_request(m.mti) /\ (m.mti.class = 2 \/ m.mti.class = 1)
            /\ ~has_field(m, 2) THEN 2
    ELSE IF is_request(m.mti) /\ (m.mti.class = 2 \/ m.mti.class = 1)
            /\ ~has_field(m, 4) THEN 4
    ELSE IF is_response(m.mti) /\ ~has_field(m, 39) THEN 39
    ELSE 0

\* Validator::validate_required_fields: 0 for Ok, else the N of
\* MissingRequiredField(N)
validate_required_fields(m) ==
    IF ~has_field(m, 3) THEN 3
    ELSE IF ~has_field(m, 11) THEN 11
    ELSE IF ~has_field(m, 12) THEN 12
    ELSE IF ~has_field(m, 13) THEN 13
    ELSE IF is_request(m.mti) /\ (m.mti.class = 2 \/ m.mti.class = 1)
            /\ ~has_field(m, 2) THEN 2
    ELSE IF is_request(m.mti) /\ (m.mti.class = 2 \/ m.mti.class = 1)
            /\ ~has_field(m, 4) THEN 4
    ELSE IF is_response(m.mti) /\ ~has_field(m, 39) THEN 39
    ELSE 0

\* the message a successful from_bytes returns
ParsedMessage(st) == [mti |-> st.mti, fields |-> st.fields, bitmap |-> st.bitmap]

----------------------------------------------------------------------------
(* Inputs                                                                   *)

\* the 8-byte block with exactly the bits of S (a subset of 1..64) set
RECURSIVE BlockOf(_)
BlockOf(S) ==
    IF S = {} THEN ZeroBlock
    ELSE LET f == CHOOSE x \in S : TRUE
         IN  set_in_bitmap(BlockOf(S \ {f}), f)

\* the fields passed to Bitmap::set / Bitmap::clear (0 and 193 are out of range)
BitmapFieldInputs == {0, 1, 2, 64, 65, 66, 70, 128, 129, 130, 192, 193}

\* the Field values passed to the builder and to set_field / remove_field
MsgFields == {1, 2, 3, 4, 11, 12, 13, 39, 65, 70}

MtiInputs == {AUTHORIZATION_REQUEST, AUTHORIZATION_RESPONSE, NETWORK_MANAGEMENT_REQUEST}

\* "4111111111111111"
PanValue == <<52>> \o Repeat(49, 15)

\* the values given for a field: text of the shape the ISO 8583 field has
\* (for the PAN also "12", which is too short and fails the Luhn check),
\* raw bytes for the two bitmap indicator numbers
FieldValues(f) ==
    IF f = 1 \/ f = 65 THEN {Bin(ZeroBlock)}
    ELSE IF f = 2 THEN {Str(PanValue), Str(<<49, 50>>)}
    ELSE IF f = 3 THEN {Str(Repeat(48, 6))}
    ELSE IF f = 4 THEN {Str(Repeat(48, 7) \o <<49, 48, 48, 48, 48>>)}
    ELSE IF f = 11 THEN {Str(<<49, 50, 51, 52, 53, 54>>)}
    ELSE IF f = 12 THEN {Str(<<49, 50, 48, 48, 48, 48>>)}
    ELSE IF f = 13 THEN {Str(<<48, 49, 49, 53>>)}
    ELSE IF f = 39 THEN {Str(<<48, 48>>)}
    ELSE {Str(<<51, 48, 49>>)}

\* "0100", "XXXX" and four bytes that are not UTF-8
MtiByteInputs == {<<48, 49, 48, 48>>, <<88, 88, 88, 88>>, <<48, 49, 255, 48>>}

\* the field sets of the primary bitmaps of the parsed buffers: indicator 1,
\* LLVAR 2 (max 19) and 32 (max 11), LLLVAR 36 (max 104), fixed text 39,
\* fixed binary 52
PrimaryInputs == {{}, {1}, {2}, {32}, {36}, {39}, {52}, {1, 32}, {32, 39}}

\* what follows the primary bitmap: nothing, a block with the bit of field
\* 70, or a block with the bit of field 65
SecondaryInputs == {<<>>, BlockOf({6}), BlockOf({1})}

\* '+', '0', '1', '2' and a byte that is never valid in UTF-8
HeadBytes == {43, 48, 49, 50, 255}

MaxHead == 3

\* the number of '0' bytes that end a buffer
FillLens == {0, 3, 12, 120}

HeadInputs == UNION {[1..n -> HeadBytes] : n \in 0..MaxHead}

\* buffers of 12 bytes and more: MTI, primary bitmap, optional block, then
\* every short byte string over HeadBytes followed by a run of '0'
LongInputs ==
    {mti \o BlockOf(P) \o sec \o head \o Repeat(48, n) :
        mti \in MtiByteInputs, P \in PrimaryInputs, sec \in SecondaryInputs,
        head \in HeadInputs, n \in FillLens}

\* buffers shorter than 12 bytes: every proper prefix of a 12-byte header
ShortInputs ==
    {SubSeq(mti \o BlockOf(P), 1, n) :
        mti \in MtiByteInputs, P \in PrimaryInputs, n \in 0..11}

ParseInputs ==
    ShortInputs
        \cup {b \in LongInputs : Slice(b, 0, 4) = <<48, 49, 48, 48>> \/ Len(b) <= 20}

----------------------------------------------------------------------------
(* Specification of the bitmap engine: any sequence of set and clear       *)

NoOp == [op |-> "new", field |-> 0, ok |-> TRUE]

IdleMsg ==
    /\ api = "message"
    /\ msg = Message_new(AUTHORIZATION_REQUEST)
    /\ phase = "idle"
    /\ buildErr = 0
    /\ wire = <<>>
    /\ parsed = ParseInit

IdleBitmap == bm = Bitmap_new /\ lastOp = NoOp

IdleParse == buf = <<>> /\ pst = ParseInit

\* no MessageType call made yet
MtiStart ==
    [pc |-> "start", mti |-> AUTHORIZATION_REQUEST, input |-> <<>>, ok |-> TRUE,
     out |-> <<>>, reOk |-> TRUE, reMti |-> AUTHORIZATION_REQUEST]

IdleMti == mt = MtiStart

\* no encoding call made yet
EncStart ==
    [pc |-> "start", s |-> <<>>, n |-> 0, digits |-> 0, encoding |-> "ASCII",
     ok |-> TRUE, bytes |-> <<>>, out |-> <<>>, outN |-> 0]

IdleEnc == enc = EncStart

\* no validate_pan call made yet
PanStart == [pc |-> "start", input |-> <<>>, ok |-> FALSE]

IdlePan == pan = PanStart

\* no definition looked up yet
LookStart ==
    [pc |-> "start", num |-> 0,
     def |-> [number |-> 0, field_type |-> "Numeric", kind |-> "Fixed", len |-> 0],
     spec |-> [some |-> FALSE, data_type |-> "Numeric", length_type |-> "Fixed",
               max_len |-> 0]]

IdleLook == look = LookStart

\* bitmap::Bitmap::new: 192 bits, all false (held as the set of the 1-indexed
\* positions whose bit is true)
BitVec_new == {}

IdleBv == bv = BitVec_new

\* static COUNTER: AtomicU32 = AtomicU32::new(1)
StanFirst == 1

\* the process before any generate_stan call: no thread exists yet
StanStart ==
    [counter |-> StanFirst, base |-> StanFirst, started |-> 0, t |-> <<>>,
     returned |-> <<>>]

IdleStan == stan = StanStart

InitBitmap == IdleBitmap /\ IdleMsg /\ IdleParse /\ IdleMti /\ IdleStan /\ IdleBv /\ IdleLook /\ IdlePan /\ IdleEnc

BmSet(f) ==
    /\ LET r == Bitmap_set(bm, f)
       IN  /\ bm' = r.bm
           /\ lastOp' = [op |-> "set", field |-> f, ok |-> r.ok]
    /\ UNCHANGED <<api, msg, phase, buildErr, wire, parsed, buf, pst, mt, enc, pan, look, bv, stan>>

BmClear(f) ==
    /\ LET r == Bitmap_clear(bm, f)
       IN  /\ bm' = r.bm
           /\ lastOp' = [op |-> "clear", field |-> f, ok |-> r.ok]
    /\ UNCHANGED <<api, msg, phase, buildErr, wire, parsed, buf, pst, mt, enc, pan, look, bv, stan>>

NextBitmap ==
    \/ \E f \in BitmapFieldInputs : BmSet(f)
    \/ \E f \in BitmapFieldInputs : BmClear(f)

SpecBitmap == InitBitmap /\ [][NextBitmap]_vars

----------------------------------------------------------------------------
(* Specification of the message API: a MessageBuilder chain ending in      *)
(* build(), or an ISO8583Message edited with set_field / remove_field;     *)
(* the message is then serialized and the bytes parsed back.               *)

InitMsg ==
    /\ IdleBitmap
    /\ IdleMti /\ IdleStan /\ IdleBv /\ IdleLook /\ IdlePan /\ IdleEnc
    /\ IdleEnc
    /\ IdleParse
    /\ api \in {"builder", "message"}
    /\ \E m \in MtiInputs :
           /\ api = "builder" => m = AUTHORIZATION_REQUEST
           /\ msg = Message_new(m)
    /\ phase = "editing"
    /\ buildErr = 0
    /\ wire = <<>>
    /\ parsed = ParseInit

\* MessageBuilder::mti
BuilderMti(m) ==
    /\ api = "builder" /\ phase = "editing"
    /\ msg' = [msg EXCEPT !.mti = m]
    /\ UNCHANGED <<bm, lastOp, api, phase, buildErr, wire, parsed, buf, pst, mt, enc, pan, look, bv, stan>>

\* MessageBuilder::field / MessageBuilder::binary_field (the Result of
\* set_field is dropped)
BuilderField(f, v) ==
    /\ api = "builder" /\ phase = "editing"
    /\ msg' = set_field(msg, f, v).msg
    /\ UNCHANGED <<bm, lastOp, api, phase, buildErr, wire, parsed, buf, pst, mt, enc, pan, look, bv, stan>>

\* MessageBuilder::build
BuilderBuild ==
    /\ api = "builder" /\ phase = "editing"
    /\ buildErr' = validate_required_fields(msg)
    /\ phase' = IF buildErr' = 0 THEN "built" ELSE "rejected"
    /\ UNCHANGED <<bm, lastOp, api, msg, wire, parsed, buf, pst, mt, enc, pan, look, bv, stan>>

\* ISO8583Message::set_field
SetField(f, v) ==
    /\ api = "message" /\ phase = "editing"
    /\ msg' = set_field(msg, f, v).msg
    /\ UNCHANGED <<bm, lastOp, api, phase, buildErr, wire, parsed, buf, pst, mt, enc, pan, look, bv, stan>>

\* ISO8583Message::remove_field
RemoveField(f) ==
    /\ api = "message" /\ phase = "editing"
    /\ msg' = remove_field(msg, f).msg
    /\ UNCHANGED <<bm, lastOp, api, phase, buildErr, wire, parsed, buf, pst, mt, enc, pan, look, bv, stan>>

\* ISO8583Message::to_bytes on the built / edited message
ToBytes ==
    /\ \/ api = "builder" /\ phase = "built"
       \/ api = "message" /\ phase = "editing"
    /\ LET g == to_bytes(msg)
       IN  /\ wire' = g.bytes
           /\ phase' = IF g.panic THEN "panicked" ELSE "serialized"
    /\ UNCHANGED <<bm, lastOp, api, msg, buildErr, parsed, buf, pst, mt, enc, pan, look, bv, stan>>

\* ISO8583Message::from_bytes on the serialized bytes
FromBytes ==
    /\ phase = "serialized"
    /\ parsed' = from_bytes(wire)
    /\ phase' = "parsed"
    /\ UNCHANGED <<bm, lastOp, api, msg, buildErr, wire, buf, pst, mt, enc, pan, look, bv, stan>>

NextMsg ==
    \/ \E m \in MtiInputs : BuilderMti(m)
    \/ \E f \in MsgFields : \E v \in FieldValues(f) : BuilderField(f, v)
    \/ BuilderBuild
    \/ \E f \in MsgFields : \E v \in FieldValues(f) : SetField(f, v)
    \/ \E f \in MsgFields : RemoveField(f)
    \/ ToBytes
    \/ FromBytes

SpecMsg == InitMsg /\ [][NextMsg]_vars

----------------------------------------------------------------------------
(* Specification of serialization: an ISO8583Message edited with           *)
(* set_field / remove_field, holding values of any shape, then to_bytes()  *)

\* SecondaryBitmap, PrimaryAccountNumber (LLVAR 19), ProcessingCode (n 6),
\* Track3Data (LLLVAR 104), ResponseCode (an 2), PinData (b 8)
SerFields == {1, 2, 3, 36, 39, 52}

\* the byte lengths of the long values given to an LLVAR and an LLLVAR field
LongLLVar == 100

LongLLLVar == 1000

\* values shorter than, equal to and longer than the field's length, text
\* with the two-byte character U+00E9 (bytes 195 169), and binary values
SerValues(f) ==
    IF f = 1 THEN {Bin(ZeroBlock)}
    ELSE IF f = 2 THEN {Str(<<52, 49>>), Str(Repeat(49, LongLLVar)), Bin(<<1, 2>>)}
    ELSE IF f = 3 THEN {Str(<<49, 50>>), Str(<<195, 169>>),
                        Str(<<49, 50, 51, 52, 53, 54>>),
                        Str(<<49, 50, 51, 52, 53, 54, 55>>)}
    ELSE IF f = 36 THEN {Str(<<97, 98, 99>>), Str(Repeat(49, LongLLLVar))}
    ELSE IF f = 39 THEN {Str(<<65>>), Str(<<97, 195, 169>>), Str(<<195, 169, 97>>),
                         Bin(<<7>>)}
    ELSE {Bin(<<1, 2>>), Bin(Repeat(9, 9))}

InitSer ==
    /\ IdleBitmap
    /\ IdleMti /\ IdleStan /\ IdleBv /\ IdleLook /\ IdlePan /\ IdleEnc
    /\ IdleEnc
    /\ IdleParse
    /\ api = "message"
    /\ msg = Message_new(AUTHORIZATION_REQUEST)
    /\ phase = "editing"
    /\ buildErr = 0
    /\ wire = <<>>
    /\ parsed = ParseInit

NextSer ==
    \/ \E f \in SerFields : \E v \in SerValues(f) : SetField(f, v)
    \/ \E f \in SerFields : RemoveField(f)
    \/ ToBytes

SpecSer == InitSer /\ [][NextSer]_vars

----------------------------------------------------------------------------
(* Specification of the MTI model: a MessageType is made by new(), taken   *)
(* from a constant or parsed by from_str; to_string() composes it and the  *)
(* composed string is parsed again.                                        *)

\* the u8 versions passed to MessageType::new
VersionInputs == {0, 1, 9, 10, 255}

\* the class digits (all ten) and the function and origin digits passed to new
ClassInputs == 0..9

FunctionInputs == {0, 1, 9}

OriginInputs == {0, 5, 9}

\* the digits of the 4-digit strings passed to from_str: '0', '1', '9'
MtiDigits == {48, 49, 57}

\* every 4-digit string over MtiDigits, and "XXXX", "01", "01000" and "01" followed by
\* the two-byte character U+00E9
MtiStrInputs ==
    [1..4 -> MtiDigits]
        \cup {<<88, 88, 88, 88>>, <<48, 49>>, <<48, 49, 48, 48, 48>>, <<48, 49, 195, 169>>}

InitMti == IdleBitmap /\ IdleMsg /\ IdleParse /\ IdleMti /\ IdleStan /\ IdleBv /\ IdleLook /\ IdlePan /\ IdleEnc

\* MessageType::new
MtiNew(v, c, f, o) ==
    /\ mt.pc = "start"
    /\ mt' = [mt EXCEPT !.pc = "value", !.mti = Mti(v, c, f, o)]
    /\ UNCHANGED <<bm, lastOp, api, msg, phase, buildErr, wire, parsed, buf, pst, enc, pan, look, bv, stan>>

\* one of the MessageType constants
MtiConst(m) ==
    /\ mt.pc = "start"
    /\ mt' = [mt EXCEPT !.pc = "value", !.mti = m]
    /\ UNCHANGED <<bm, lastOp, api, msg, phase, buildErr, wire, parsed, buf, pst, enc, pan, look, bv, stan>>

\* MessageType::from_str(s)
MtiFromStr(s) ==
    /\ mt.pc = "start"
    /\ LET r == MessageType_from_str(s)
       IN  mt' = [mt EXCEPT !.pc = "parsed", !.input = s, !.ok = r.ok, !.mti = r.mti]
    /\ UNCHANGED <<bm, lastOp, api, msg, phase, buildErr, wire, parsed, buf, pst, enc, pan, look, bv, stan>>

\* MessageType::to_string on the value obtained
MtiToString ==
    /\ mt.pc = "value" \/ (mt.pc = "parsed" /\ mt.ok)
    /\ mt' = [mt EXCEPT !.pc = IF mt.pc = "value" THEN "composed" ELSE "recomposed",
                        !.out = MessageType_to_string(mt.mti)]
    /\ UNCHANGED <<bm, lastOp, api, msg, phase, buildErr, wire, parsed, buf, pst, enc, pan, look, bv, stan>>

\* MessageType::from_str on the composed string
MtiReparse ==
    /\ mt.pc = "composed"
    /\ LET r == MessageType_from_str(mt.out)
       IN  mt' = [mt EXCEPT !.pc = "reparsed", !.reOk = r.ok, !.reMti = r.mti]
    /\ UNCHANGED <<bm, lastOp, api, msg, phase, buildErr, wire, parsed, buf, pst, enc, pan, look, bv, stan>>

NextMti ==
    \/ \E v \in VersionInputs, c \in ClassInputs, f \in FunctionInputs,
          o \in OriginInputs : MtiNew(v, c, f, o)
    \/ \E m \in MtiInputs : MtiConst(m)
    \/ \E s \in MtiStrInputs : MtiFromStr(s)
    \/ MtiToString
    \/ MtiReparse

SpecMti == InitMti /\ [][NextMti]_vars

----------------------------------------------------------------------------
(* Encodings: src/encoding.rs                                              *)

EncOk(bytes) == [ok |-> TRUE, bytes |-> bytes]

EncErr == [ok |-> FALSE, bytes |-> <<>>]

\* the digits of a string as bytes, two per byte, high nibble first
\* (the string has even length)
PackPairs(p) == [i \in 1..(Len(p) \div 2) |-> (p[2 * i - 1] - 48) * 16 + (p[2 * i] - 48)]

\* encode_bcd
encode_bcd(s) ==
    IF \E i \in 1..Len(s) : ~IsAsciiDigit(s[i]) THEN EncErr
    ELSE LET padded == IF Len(s) % 2 # 0 THEN <<48>> \o s ELSE s
         IN  EncOk(PackPairs(padded))

\* the two ASCII digits of each byte, in order
UnpackPairs(bytes) ==
    [i \in 1..(2 * Len(bytes)) |->
        IF i % 2 = 1 THEN 48 + (bytes[(i + 1) \div 2] \div 16)
        ELSE 48 + (bytes[i \div 2] % 16)]

\* the bytes the loop of decode_bcd reads before its break
BcdRead(bytes, length) ==
    LET want == IF length = 0 THEN 1 ELSE (length + 1) \div 2
    IN  SubSeq(bytes, 1, IF Len(bytes) < want THEN Len(bytes) ELSE want)

\* decode_bcd that keeps the last `length` digits instead of the first
decode_bcd_trailing(bytes, length) ==
    LET read == BcdRead(bytes, length)
        d    == UnpackPairs(read)
    IN  IF \E i \in 1..Len(read) : read[i] \div 16 > 9 \/ read[i] % 16 > 9 THEN EncErr
        ELSE IF Len(d) > length THEN EncOk(SubSeq(d, Len(d) - length + 1, Len(d)))
        ELSE EncOk(d)

\* decode_bcd
decode_bcd(bytes, length) ==
    LET read == BcdRead(bytes, length)
        d    == UnpackPairs(read)
    IN  IF \E i \in 1..Len(read) : read[i] \div 16 > 9 \/ read[i] % 16 > 9 THEN EncErr
        ELSE IF Len(d) > length THEN EncOk(SubSeq(d, 1, length))
        ELSE EncOk(d)

\* encode_ascii
encode_ascii(s) == s

\* decode_ascii
decode_ascii(bytes) == IF from_utf8_ok(bytes) THEN EncOk(bytes) ELSE EncErr

\* the table of lines 94-127, entry b at index b + 1
EBCDIC_TO_ASCII ==
    <<0, 1, 2, 3, 156, 9, 134, 127, 151, 141, 142, 11, 12, 13, 14, 15,
      16, 17, 18, 19, 157, 133, 8, 135, 24, 25, 146, 143, 28, 29, 30, 31,
      128, 129, 130, 131, 132, 10, 23, 27, 136, 137, 138, 139, 140, 5, 6, 7,
      144, 145, 22, 147, 148, 149, 150, 4, 152, 153, 154, 155, 20, 21, 158, 26,
      32, 160, 226, 228, 224, 225, 227, 229, 231, 241, 162, 46, 60, 40, 43, 124,
      38, 233, 234, 235, 232, 237, 238, 239, 236, 223, 33, 36, 42, 41, 59, 172,
      45, 47, 194, 196, 192, 193, 195, 197, 199, 209, 166, 44, 37, 95, 62, 63,
      248, 201, 202, 203, 200, 205, 206, 207, 204, 96, 58, 35, 64, 39, 61, 34,
      216, 97, 98, 99, 100, 101, 102, 103, 104, 105, 171, 187, 240, 253, 254, 177,
      176, 106, 107, 108, 109, 110, 111, 112, 113, 114, 170, 186, 230, 184, 198, 164,
      181, 126, 115, 116, 117, 118, 119, 120, 121, 122, 161, 191, 208, 221, 222, 174,
      94, 163, 165, 183, 169, 167, 182, 188, 189, 190, 91, 93, 175, 168, 180, 215,
      123, 65, 66, 67, 68, 69, 70, 71, 72, 73, 173, 244, 246, 242, 243, 245,
      125, 74, 75, 76, 77, 78, 79, 80, 81, 82, 185, 251, 252, 249, 250, 255,
      92, 247, 83, 84, 85, 86, 87, 88, 89, 90, 178, 212, 214, 210, 211, 213,
      48, 49, 50, 51, 52, 53, 54, 55, 56, 57, 179, 219, 220, 217, 218, 159>>

\* encode_ebcdic: each byte becomes the first table position that holds it
encode_ebcdic(s) ==
    IF \E i \in 1..Len(s) : \A p \in 1..256 : EBCDIC_TO_ASCII[p] # s[i] THEN EncErr
    ELSE EncOk([i \in 1..Len(s) |->
                   (CHOOSE p \in 1..256 :
                        /\ EBCDIC_TO_ASCII[p] = s[i]
                        /\ \A q \in 1..(p - 1) : EBCDIC_TO_ASCII[q] # s[i]) - 1])

\* decode_ebcdic
decode_ebcdic(bytes) ==
    decode_ascii([i \in 1..Len(bytes) |-> EBCDIC_TO_ASCII[bytes[i] + 1]])

\* encode_length
encode_length(length, digits, encoding) ==
    LET length_str == FormatZeroPad(length, digits)
    IN  IF encoding = "ASCII" THEN EncOk(encode_ascii(length_str))
        ELSE IF encoding = "BCD" THEN encode_bcd(length_str)
        ELSE encode_ebcdic(length_str)

\* decode_length: [ok, value]
decode_length(bytes, digits, encoding) ==
    LET length_str == IF encoding = "ASCII" THEN decode_ascii(bytes)
                      ELSE IF encoding = "BCD" THEN decode_bcd(bytes, digits)
                      ELSE decode_ebcdic(bytes)
    IN  IF ~length_str.ok THEN [ok |-> FALSE, value |-> 0]
        ELSE parse_usize(length_str.bytes)

----------------------------------------------------------------------------
(* Specification of the encodings: a string is BCD-encoded and decoded     *)
(* with its own digit count, or a length is encoded and decoded.           *)

\* the longest string passed to encode_bcd
MaxBcdLen == 4

\* the bytes of the strings passed to encode_bcd: '0', '1', '9' and 'A'
BcdChars == {48, 49, 57, 65}

BcdInputs == UNION {[1..n -> BcdChars] : n \in 0..MaxBcdLen}

Encodings == {"ASCII", "BCD", "EBCDIC"}

\* 10^d for the two prefix widths
Pow10(d) == IF d = 2 THEN 100 ELSE 1000

InitEnc == IdleBitmap /\ IdleMsg /\ IdleParse /\ IdleMti /\ IdleStan /\ IdleBv /\ IdleLook /\ IdlePan /\ IdleEnc

\* encode_bcd(s)
EncodeBcd(s) ==
    /\ enc.pc = "start"
    /\ LET r == encode_bcd(s)
       IN  enc' = [enc EXCEPT !.pc = "bcd_encoded", !.s = s, !.ok = r.ok,
                              !.bytes = r.bytes]
    /\ UNCHANGED <<bm, lastOp, api, msg, phase, buildErr, wire, parsed, buf, pst, mt, pan, look, bv, stan>>

\* decode_bcd(encoded, s.len())
DecodeBcd ==
    /\ enc.pc = "bcd_encoded" /\ enc.ok
    /\ LET r == decode_bcd(enc.bytes, Len(enc.s))
       IN  enc' = [enc EXCEPT !.pc = "bcd_decoded", !.ok = r.ok, !.out = r.bytes]
    /\ UNCHANGED <<bm, lastOp, api, msg, phase, buildErr, wire, parsed, buf, pst, mt, pan, look, bv, stan>>

\* encode_length(n, d, e)
EncodeLength(n, d, e) ==
    /\ enc.pc = "start"
    /\ LET r == encode_length(n, d, e)
       IN  enc' = [enc EXCEPT !.pc = "len_encoded", !.n = n, !.digits = d,
                              !.encoding = e, !.ok = r.ok, !.bytes = r.bytes]
    /\ UNCHANGED <<bm, lastOp, api, msg, phase, buildErr, wire, parsed, buf, pst, mt, pan, look, bv, stan>>

\* decode_length(encoded, d, e)
DecodeLength ==
    /\ enc.pc = "len_encoded" /\ enc.ok
    /\ LET r == decode_length(enc.bytes, enc.digits, enc.encoding)
       IN  enc' = [enc EXCEPT !.pc = "len_decoded", !.ok = r.ok, !.outN = r.value]
    /\ UNCHANGED <<bm, lastOp, api, msg, phase, buildErr, wire, parsed, buf, pst, mt, pan, look, bv, stan>>

NextEnc ==
    \/ \E s \in BcdInputs : EncodeBcd(s)
    \/ DecodeBcd
    \/ \E d \in {2, 3} : \E n \in 0..(Pow10(d) - 1) : \E e \in Encodings :
           EncodeLength(n, d, e)
    \/ DecodeLength

SpecEnc == InitEnc /\ [][NextEnc]_vars

----------------------------------------------------------------------------
(* PAN validation: src/validation.rs                                       *)

\* the ASCII digits of a string, in order (chars().filter(is_ascii_digit))
AsciiDigitsOf(s) == SelectSeq(s, IsAsciiDigit)

\* the Luhn sum of the last k digits of number: from the right, every second
\* digit is doubled and 9 is subtracted when the double exceeds 9
RECURSIVE LuhnSum(_, _)
LuhnSum(number, k) ==
    IF k = 0 THEN 0
    ELSE LET digit   == number[Len(number) - k + 1] - 48
             doubled == IF 2 * digit > 9 THEN 2 * digit - 9 ELSE 2 * digit
         IN  (IF k % 2 = 0 THEN doubled ELSE digit) + LuhnSum(number, k - 1)

\* Validator::luhn_check
luhn_check(number) ==
    IF \E i \in 1..Len(number) : ~IsAsciiDigit(number[i]) THEN FALSE
    ELSE LuhnSum(number, Len(number)) % 10 = 0

\* Validator::validate_pan
validate_pan(p) ==
    LET digits == AsciiDigitsOf(p)
    IN  IF Len(digits) < 13 \/ Len(digits) > 19 THEN FALSE
        ELSE luhn_check(digits)

----------------------------------------------------------------------------
(* Specification of validate_pan on a given string                         *)

\* the lengths of the all-zero strings: one below 13 up to one above 19
ZeroPanLens == 12..20

\* "4111111111111111", "4111111111111112", "4111 1111 1111 1111"
TestPans ==
    {PanValue,
     <<52>> \o Repeat(49, 14) \o <<50>>,
     <<52, 49, 49, 49, 32>> \o Repeat(49, 4) \o <<32>> \o Repeat(49, 4) \o <<32>>
         \o Repeat(49, 4)}

\* the all-zero strings, the test PANs and every 13-digit string of '0' and '9'
PanInputs ==
    {Repeat(48, n) : n \in ZeroPanLens} \cup TestPans \cup [1..13 -> {48, 57}]

InitPan == IdleBitmap /\ IdleMsg /\ IdleParse /\ IdleMti /\ IdleStan /\ IdleBv /\ IdleEnc /\ IdlePan /\ IdleLook

\* Validator::validate_pan(p)
ValidatePan(p) ==
    /\ pan.pc = "start"
    /\ pan' = [pc |-> "done", input |-> p, ok |-> validate_pan(p)]
    /\ UNCHANGED <<bm, lastOp, api, msg, phase, buildErr, wire, parsed, buf, pst, mt, enc, look, bv, stan>>

NextPan == \E p \in PanInputs : ValidatePan(p)

SpecPan == InitPan /\ [][NextPan]_vars

----------------------------------------------------------------------------
(* Field Specification Table: src/spec.rs                                  *)

\* Some(FieldDefinition { data_type, length_type, max_len })
SpecDef(t, k, l) == [some |-> TRUE, data_type |-> t, length_type |-> k, max_len |-> l]

\* None
NoSpecDef ==
    [some |-> FALSE, data_type |-> "Numeric", length_type |-> "Fixed", max_len |-> 0]

\* ISO8583_1987_TABLE: the 129 entries, entry n at index n + 1
ISO8583_1987_TABLE ==
  <<
     NoSpecDef,
     SpecDef("Binary", "Fixed", 8),
     SpecDef("Numeric", "Llvar", 19),
     SpecDef("Numeric", "Fixed", 6),
     SpecDef("Numeric", "Fixed", 12),
     SpecDef("Numeric", "Fixed", 12),
     SpecDef("Numeric", "Fixed", 12),
     SpecDef("Numeric", "Fixed", 10),
     SpecDef("Numeric", "Fixed", 8),
     SpecDef("Numeric", "Fixed", 8),
     SpecDef("Numeric", "Fixed", 8),
     SpecDef("Numeric", "Fixed", 6),
     SpecDef("Numeric", "Fixed", 6),
     SpecDef("Numeric", "Fixed", 4),
     SpecDef("Numeric", "Fixed", 4),
     SpecDef("Numeric", "Fixed", 4),
     SpecDef("Numeric", "Fixed", 4),
     SpecDef("Numeric", "Fixed", 4),
     SpecDef("Numeric", "Fixed", 4),
     SpecDef("Numeric", "Fixed", 3),
     SpecDef("Numeric", "Fixed", 3),
     SpecDef("Numeric", "Fixed", 3),
     SpecDef("Numeric", "Fixed", 3),
     SpecDef("Numeric", "Fixed", 3),
     SpecDef("Numeric", "Fixed", 3),
     SpecDef("Numeric", "Fixed", 2),
     SpecDef("Numeric", "Fixed", 2),
     SpecDef("Numeric", "Fixed", 1),
     SpecDef("Numeric", "Fixed", 9),
     SpecDef("Numeric", "Fixed", 9),
     SpecDef("Numeric", "Fixed", 9),
     SpecDef("Numeric", "Fixed", 9),
     SpecDef("Numeric", "Llvar", 11),
     SpecDef("Numeric", "Llvar", 11),
     SpecDef("Alphanumeric", "Llvar", 28),
     SpecDef("Track2", "Llvar", 37),
     SpecDef("Track3", "Lllvar", 104),
     SpecDef("Alphanumeric", "Fixed", 12),
     SpecDef("Alphanumeric", "Fixed", 6),
     SpecDef("Alphanumeric", "Fixed", 2),
     SpecDef("Alphanumeric", "Fixed", 3),
     SpecDef("AlphanumericSpecial", "Fixed", 8),
     SpecDef("AlphanumericSpecial", "Fixed", 15),
     SpecDef("AlphanumericSpecial", "Fixed", 40),
     SpecDef("AlphanumericSpecial", "Llvar", 25),
     SpecDef("AlphanumericSpecial", "Llvar", 76),
     SpecDef("AlphanumericSpecial", "Lllvar", 999),
     SpecDef("AlphanumericSpecial", "Lllvar", 999),
     SpecDef("AlphanumericSpecial", "Lllvar", 999),
     SpecDef("Alphanumeric", "Fixed", 3),
     SpecDef("Alphanumeric", "Fixed", 3),
     SpecDef("Alphanumeric", "Fixed", 3),
     SpecDef("Binary", "Fixed", 8),
     SpecDef("Numeric", "Fixed", 16),
     SpecDef("AlphanumericSpecial", "Lllvar", 120),
     SpecDef("Binary", "Lllvar", 999),
     SpecDef("AlphanumericSpecial", "Lllvar", 999),
     SpecDef("AlphanumericSpecial", "Lllvar", 999),
     SpecDef("AlphanumericSpecial", "Lllvar", 999),
     SpecDef("AlphanumericSpecial", "Lllvar", 999),
     SpecDef("AlphanumericSpecial", "Lllvar", 999),
     SpecDef("AlphanumericSpecial", "Lllvar", 999),
     SpecDef("AlphanumericSpecial", "Lllvar", 999),
     SpecDef("AlphanumericSpecial", "Lllvar", 999),
     SpecDef("Binary", "Fixed", 8),
     SpecDef("Binary", "Fixed", 8),
     SpecDef("Numeric", "Fixed", 1),
     SpecDef("Numeric", "Fixed", 2),
     SpecDef("Numeric", "Fixed", 3),
     SpecDef("Numeric", "Fixed", 3),
     SpecDef("Numeric", "Fixed", 3),
     SpecDef("Numeric", "Fixed", 4),
     SpecDef("Numeric", "Fixed", 4),
     SpecDef("Numeric", "Fixed", 6),
     SpecDef("Numeric", "Fixed", 10),
     SpecDef("Numeric", "Fixed", 10),
     SpecDef("Numeric", "Fixed", 10),
     SpecDef("Numeric", "Fixed", 10),
     SpecDef("Numeric", "Fixed", 10),
     SpecDef("Numeric", "Fixed", 10),
     SpecDef("Numeric", "Fixed", 10),
     SpecDef("Numeric", "Fixed", 10),
     SpecDef("Numeric", "Fixed", 12),
     SpecDef("Numeric", "Fixed", 12),
     SpecDef("Numeric", "Fixed", 12),
     SpecDef("Numeric", "Fixed", 12),
     SpecDef("Numeric", "Fixed", 16),
     SpecDef("Numeric", "Fixed", 16),
     SpecDef("Numeric", "Fixed", 16),
     SpecDef("Numeric", "Fixed", 16),
     SpecDef("Numeric", "Fixed", 42),
     SpecDef("Alphanumeric", "Fixed", 1),
     SpecDef("Alphanumeric", "Fixed", 2),
     SpecDef("Alphanumeric", "Fixed", 5),
     SpecDef("Alphanumeric", "Fixed", 7),
     SpecDef("Alphanumeric", "Fixed", 42),
     SpecDef("Binary", "Fixed", 8),
     SpecDef("Numeric", "Fixed", 16),
     SpecDef("AlphanumericSpecial", "Fixed", 25),
     SpecDef("Numeric", "Llvar", 11),
     SpecDef("Numeric", "Llvar", 11),
     SpecDef("AlphanumericSpecial", "Llvar", 17),
     SpecDef("AlphanumericSpecial", "Llvar", 28),
     SpecDef("AlphanumericSpecial", "Llvar", 28),
     SpecDef("AlphanumericSpecial", "Lllvar", 100),
     SpecDef("AlphanumericSpecial", "Lllvar", 999),
     SpecDef("AlphanumericSpecial", "Lllvar", 999),
     SpecDef("AlphanumericSpecial", "Lllvar", 999),
     SpecDef("AlphanumericSpecial", "Lllvar", 999),
     SpecDef("AlphanumericSpecial", "Lllvar", 999),
     SpecDef("AlphanumericSpecial", "Lllvar", 999),
     SpecDef("AlphanumericSpecial", "Lllvar", 999),
     SpecDef("AlphanumericSpecial", "Lllvar", 999),
     SpecDef("AlphanumericSpecial", "Lllvar", 999),
     SpecDef("AlphanumericSpecial", "Lllvar", 999),
     SpecDef("AlphanumericSpecial", "Lllvar", 999),
     SpecDef("AlphanumericSpecial", "Lllvar", 999),
     SpecDef("AlphanumericSpecial", "Lllvar", 999),
     SpecDef("AlphanumericSpecial", "Lllvar", 999),
     SpecDef("AlphanumericSpecial", "Lllvar", 999),
     SpecDef("AlphanumericSpecial", "Lllvar", 999),
     SpecDef("AlphanumericSpecial", "Lllvar", 999),
     SpecDef("AlphanumericSpecial", "Lllvar", 999),
     SpecDef("AlphanumericSpecial", "Lllvar", 999),
     SpecDef("AlphanumericSpecial", "Lllvar", 255),
     SpecDef("AlphanumericSpecial", "Lllvar", 50),
     SpecDef("AlphanumericSpecial", "Lllvar", 6),
     SpecDef("AlphanumericSpecial", "Lllvar", 999),
     SpecDef("Binary", "Fixed", 8)
  >>

\* IsoSpec::get_field for Iso1987
IsoSpec_get_field(number) ==
    IF number < Len(ISO8583_1987_TABLE) THEN ISO8583_1987_TABLE[number + 1]
    ELSE NoSpecDef

----------------------------------------------------------------------------
(* Specification of the definition lookups for a Field                     *)

\* the numbers of the Field enum
FieldNumbers == 1..128

InitLook == IdleBitmap /\ IdleMsg /\ IdleParse /\ IdleMti /\ IdleStan /\ IdleBv /\ IdleEnc /\ IdlePan /\ IdleLook

\* Field::from_number(n).definition() and Iso1987::get_field(n)
Lookup(n) ==
    /\ look.pc = "start"
    /\ from_number_ok(n)
    /\ look' = [pc |-> "done", num |-> n, def |-> definition(n),
                spec |-> IsoSpec_get_field(n)]
    /\ UNCHANGED <<bm, lastOp, api, msg, phase, buildErr, wire, parsed, buf, pst, mt,
                   enc, pan, bv, stan>>

NextLook == \E n \in FieldNumbers : Lookup(n)

SpecLook == InitLook /\ [][NextLook]_vars

----------------------------------------------------------------------------
(* Bit-vector bitmap: src/bitmap.rs                                        *)

\* bitmap::Bitmap::is_set
BitVec_is_set(bits, field) ==
    IF field = 0 \/ field > 192 THEN FALSE ELSE field \in bits

\* bitmap::Bitmap::set: [ok, bits]
BitVec_set(bits, field) ==
    IF field = 0 \/ field > 192 THEN [ok |-> FALSE, bits |-> bits]
    ELSE [ok |-> TRUE,
          bits |-> bits \cup {field}
                       \cup (IF field > 64 /\ field <= 128 THEN {1} ELSE {})
                       \cup (IF field > 128 THEN {1, 65} ELSE {})]

\* bitmap::Bitmap::clear: [ok, bits]
BitVec_clear(bits, field) ==
    IF field = 0 \/ field > 192 THEN [ok |-> FALSE, bits |-> bits]
    ELSE [ok |-> TRUE, bits |-> bits \ {field}]

\* 1 << (7 - bit_idx) when the bit at 1-indexed position n is set, else 0
BitWeight(bits, n, bit_idx) == IF n \in bits THEN 2 ^ (7 - bit_idx) ELSE 0

\* bits_to_bytes of the 64 bits that follow position base
bits_to_bytes(bits, base) ==
    [i \in 1..8 |->
        LET first == base + 8 * (i - 1)
        IN  BitWeight(bits, first + 1, 0) + BitWeight(bits, first + 2, 1)
                + BitWeight(bits, first + 3, 2) + BitWeight(bits, first + 4, 3)
                + BitWeight(bits, first + 5, 4) + BitWeight(bits, first + 6, 5)
                + BitWeight(bits, first + 7, 6) + BitWeight(bits, first + 8, 7)]

\* bitmap::Bitmap::to_bytes
BitVec_to_bytes(bits) ==
    bits_to_bytes(bits, 0)
        \o (IF BitVec_is_set(bits, 1) THEN bits_to_bytes(bits, 64) ELSE <<>>)
        \o (IF BitVec_is_set(bits, 65) THEN bits_to_bytes(bits, 128) ELSE <<>>)

----------------------------------------------------------------------------
(* Specification of the two bitmaps side by side: the same set and clear   *)
(* calls are made on a bitmap::Bitmap and on a bitmap_simd::Bitmap         *)

InitTwo ==
    IdleBitmap /\ IdleMsg /\ IdleParse /\ IdleMti /\ IdleStan /\ IdleEnc /\ IdlePan /\ IdleLook
        /\ IdleBv

\* set(f) on both
BothSet(f) ==
    /\ LET r == Bitmap_set(bm, f)
       IN  /\ bm' = r.bm
           /\ lastOp' = [op |-> "set", field |-> f, ok |-> r.ok]
    /\ bv' = BitVec_set(bv, f).bits
    /\ UNCHANGED <<api, msg, phase, buildErr, wire, parsed, buf, pst, mt, enc, pan,
                   look, stan>>

\* clear(f) on both
BothClear(f) ==
    /\ LET r == Bitmap_clear(bm, f)
       IN  /\ bm' = r.bm
           /\ lastOp' = [op |-> "clear", field |-> f, ok |-> r.ok]
    /\ bv' = BitVec_clear(bv, f).bits
    /\ UNCHANGED <<api, msg, phase, buildErr, wire, parsed, buf, pst, mt, enc, pan,
                   look, stan>>

NextTwo ==
    \/ \E f \in BitmapFieldInputs : BothSet(f)
    \/ \E f \in BitmapFieldInputs : BothClear(f)

SpecTwo == InitTwo /\ [][NextTwo]_vars

----------------------------------------------------------------------------
(* STAN generation: src/utils.rs generate_stan                             *)

\* the `% 1_000_000` of generate_stan
StanModulus == 1000000

\* AtomicU32::fetch_add(n, SeqCst) that returns the old value and stores it
\* back unchanged
fetch_add_lost(counter, n) == [old |-> counter, new |-> counter]

\* AtomicU32::fetch_add(n, SeqCst): one atomic step that returns the old
\* value and stores old + n (the u32 wraps only after 2^32 calls; the
\* counters of a run stay below StanModulus + MaxStanCalls)
fetch_add(counter, n) == [old |-> counter, new |-> counter + n]

\* format!("{:06}", value)
stan_string(old) == FormatZeroPad(old % StanModulus, 6)

----------------------------------------------------------------------------
(* Specification of generate_stan called by several threads: each call is  *)
(* the atomic fetch_add followed by the thread-local formatting.           *)

\* the number of threads
NumThreads == 3

\* the number of calls made in a run
MaxStanCalls == 4

StanThreads == 1..NumThreads

\* the counter values a run starts from: a fresh process, and a process in
\* which generate_stan has already returned 999,997 times
StanStarts == {StanFirst, StanModulus - 2}

InitStan ==
    /\ IdleBitmap /\ IdleMsg /\ IdleParse /\ IdleMti /\ IdleEnc /\ IdlePan
    /\ IdleLook /\ IdleBv
    /\ \E c \in StanStarts :
           stan = [counter |-> c, base |-> c, started |-> 0,
                   t |-> [th \in StanThreads |-> [pc |-> "idle", old |-> 0, no |-> 0]],
                   returned |-> <<>>]

\* COUNTER.fetch_add(1, Ordering::SeqCst) by thread th; the call is number
\* base + started of the process
StanFetch(th) ==
    /\ stan.t[th].pc = "idle"
    /\ stan.started < MaxStanCalls
    /\ LET r == fetch_add(stan.counter, 1)
       IN  stan' = [stan EXCEPT !.counter = r.new,
                                !.started = @ + 1,
                                !.t[th] = [pc |-> "fetched", old |-> r.old,
                                           no |-> stan.base + stan.started]]
    /\ UNCHANGED <<bm, lastOp, api, msg, phase, buildErr, wire, parsed, buf, pst, mt,
                   enc, pan, look, bv>>

\* the `% 1_000_000` and format! of thread th, and its return
StanFormat(th) ==
    /\ stan.t[th].pc = "fetched"
    /\ stan' = [stan EXCEPT !.returned = Append(@, [no |-> stan.t[th].no,
                                                    str |-> stan_string(stan.t[th].old)]),
                            !.t[th] = [pc |-> "idle", old |-> 0, no |-> 0]]
    /\ UNCHANGED <<bm, lastOp, api, msg, phase, buildErr, wire, parsed, buf, pst, mt,
                   enc, pan, look, bv>>

NextStan ==
    \/ \E th \in StanThreads : StanFetch(th)
    \/ \E th \in StanThreads : StanFormat(th)

SpecStan == InitStan /\ [][NextStan]_vars

----------------------------------------------------------------------------
(* Specification of from_bytes on an arbitrary buffer, one step at a time  *)

InitParse ==
    /\ IdleBitmap
    /\ IdleMti /\ IdleStan /\ IdleBv /\ IdleLook /\ IdlePan /\ IdleEnc
    /\ IdleEnc
    /\ IdleMsg
    /\ buf \in ParseInputs
    /\ pst = ParseInit

ParseHeader ==
    /\ pst.pc = "start"
    /\ pst' = parse_header(buf, pst)
    /\ UNCHANGED <<bm, lastOp, api, msg, phase, buildErr, wire, parsed, buf, mt, enc, pan, look, bv, stan>>

ParseSecondary ==
    /\ pst.pc = "secondary"
    /\ pst' = parse_secondary(buf, pst)
    /\ UNCHANGED <<bm, lastOp, api, msg, phase, buildErr, wire, parsed, buf, mt, enc, pan, look, bv, stan>>

ParseNextField ==
    /\ pst.pc = "fields"
    /\ pst' = parse_next_field(buf, pst)
    /\ UNCHANGED <<bm, lastOp, api, msg, phase, buildErr, wire, parsed, buf, mt, enc, pan, look, bv, stan>>

NextParse == ParseHeader \/ ParseSecondary \/ ParseNextField

SpecParse == InitParse /\ [][NextParse]_vars

----------------------------------------------------------------------------
(* Claims about the bitmap engine, checked under SpecBitmap                *)

\* C3: a successful set(f) leaves is_set(f) true; for 65 <= f <= 128 it
\* also leaves is_set(1) true; for 129 <= f <= 192 it also leaves is_set(1)
\* and is_set(65) true, whatever set and clear calls came before.
C3_SetCascades ==
    (lastOp.op = "set" /\ lastOp.ok) =>
        /\ Bitmap_is_set(bm, lastOp.field)
        /\ (lastOp.field >= 65 /\ lastOp.field <= 128) => Bitmap_is_set(bm, 1)
        /\ (lastOp.field >= 129 /\ lastOp.field <= 192) =>
               (Bitmap_is_set(bm, 1) /\ Bitmap_is_set(bm, 65))

\* C4: in every reachable bitmap, a set bit in 66..128 implies bit 1 is
\* set, and a set bit in 129..192 implies bits 1 and 65 are both set.
C4_CascadeInvariant ==
    /\ \A g \in 66..128 : Bitmap_is_set(bm, g) => Bitmap_is_set(bm, 1)
    /\ \A g \in 129..192 :
           Bitmap_is_set(bm, g) => (Bitmap_is_set(bm, 1) /\ Bitmap_is_set(bm, 65))

----------------------------------------------------------------------------
(* Claims about the message API, checked under SpecMsg                     *)

\* the (field number, value) pairs of a field map
Pairs(fields) == {<<n, fields[n]>> : n \in DOMAIN fields}

\* C1: every message that build() accepted, holding fields in 2..128 only,
\* parses back from its own bytes: from_bytes returns Ok with the same MTI
\* and the same set of (field number, value) pairs.
C1_BuildRoundTrip ==
    (api = "builder" /\ phase = "parsed" /\ (DOMAIN msg.fields) \subseteq 2..128) =>
        /\ parsed.pc = "ok"
        /\ parsed.mti = msg.mti
        /\ Pairs(parsed.fields) = Pairs(msg.fields)

\* bitmap bit N and field map entry N agree for every data field number
BitmapMatchesFields(m) ==
    \A n \in (2..128) \ {65} : Bitmap_is_set(m.bitmap, n) <=> has_field(m, n)

\* C2: in every message reached by set_field / remove_field (and the
\* builder), and in every message from_bytes returns, bitmap().is_set(N)
\* holds exactly when the field map holds a value for N, N in 2..128, N # 65.
C2_BitmapMatchesFields ==
    /\ BitmapMatchesFields(msg)
    /\ (phase = "parsed" /\ parsed.pc = "ok") => BitmapMatchesFields(ParsedMessage(parsed))

\* a message is edited, holds a field above 64 and one below, and one
\* from_bytes returned holds a field
C2_Witness ==
    /\ phase = "parsed" /\ parsed.pc = "ok"
    /\ \E n \in DOMAIN parsed.fields : n >= 2
    /\ \E n \in DOMAIN msg.fields : n > 65
    /\ \E n \in (2..64) \ DOMAIN msg.fields : TRUE

\* the bitmap portion of the serialized message: what follows the 4 MTI
\* bytes and precedes the field data
BitmapPortionLen == Len(wire) - 4 - Len(fields_to_bytes(msg.fields).bytes)

\* C10: the serialized bitmap is 8 bytes exactly when the message holds no
\* field above 64, and 16 bytes when its highest field is in 66..128.
C10_BitmapSizeFollowsFields ==
    (api = "message" /\ phase = "serialized") =>
        /\ BitmapPortionLen = 8 <=> ~\E n \in DOMAIN msg.fields : n > 64
        /\ (/\ \E n \in DOMAIN msg.fields : n >= 66
            /\ \A n \in DOMAIN msg.fields : n <= 128)
           => BitmapPortionLen = 16

----------------------------------------------------------------------------
(* Claims about from_bytes, checked under SpecParse                        *)

\* bit k of the 8-byte block at offset off of the buffer
WireBit(off, k) == Len(buf) >= off + 8 /\ is_set_in_bitmap(Slice(buf, off, off + 8), k)

\* C5: when bit 1 of the primary bitmap is set, the next 8 bytes are the
\* secondary block and are merged: for every k in 2..64 set in that block
\* the returned message has bit 64+k set and holds a value for field 64+k.
C5_SecondaryMerged ==
    (pst.pc = "ok" /\ WireBit(4, 1)) =>
        \A k \in 2..64 :
            WireBit(12, k) =>
                (Bitmap_is_set(pst.bitmap, 64 + k) /\ (64 + k) \in DOMAIN pst.fields)

\* C6: when bit 1 of the primary block and the first bit of the secondary
\* block are set, from_bytes needs 8 more bytes for the tertiary block (a
\* too-short error without them) and field data starts at offset 28.
C6_TertiaryConsumed ==
    (Finished(pst) /\ pst.err.type # "InvalidMTI" /\ WireBit(4, 1) /\ WireBit(12, 1)) =>
        /\ Len(buf) < 28 => (pst.pc = "err" /\ pst.err.type = "MessageTooShort")
        /\ pst.pc = "ok" => pst.offset >= 28
        /\ pst.lastField # 0 => pst.lastOffset >= 28

\* C7: from_bytes never panics: every slice it takes lies within the
\* buffer, and the running offset never exceeds the buffer length.
C7_ParseSafe == pst.pc # "panic" /\ pst.offset <= Len(buf)

\* a parse that read fields up to the very end of the buffer
C7_Witness ==
    /\ pst.pc = "ok"
    /\ pst.offset = Len(buf)
    /\ pst.lastField # 0
    /\ Len(buf) > 12

\* width of the length prefix of a field, 0 for a fixed field
PrefixWidth(def) == IF def.kind = "LLVar" THEN 2 ELSE IF def.kind = "LLLVar" THEN 3 ELSE 0

\* the last field read was variable-length and its parse succeeded
VarFieldParsed ==
    /\ pst.lastField # 0
    /\ pst.pc \in {"fields", "ok"}
    /\ PrefixWidth(definition(pst.lastField)) > 0

\* C8: an LLVAR / LLLVAR field is read only when the declared length is at
\* most the definition's maximum and at most the bytes left after the
\* prefix; then exactly that many bytes are the value and the offset moves
\* by prefix width plus length.
C8_LengthPrefixBounds ==
    VarFieldParsed =>
        LET def  == definition(pst.lastField)
            w    == PrefixWidth(def)
            left == Len(buf) - pst.lastOffset
        IN  /\ left >= w
            /\ LET declared == parse_usize(Slice(buf, pst.lastOffset, pst.lastOffset + w))
               IN  /\ declared.ok
                   /\ declared.value <= def.len
                   /\ declared.value <= left - w
                   /\ pst.offset = pst.lastOffset + w + declared.value
                   /\ Len(pst.fields[pst.lastField].data) = declared.value

\* an LLVAR field with a non-empty value was read
C8_Witness ==
    /\ VarFieldParsed
    /\ definition(pst.lastField).kind = "LLVar"
    /\ pst.offset > pst.lastOffset + 2

\* C9: a buffer shorter than 12 bytes is rejected with
\* MessageTooShort{expected: 12, actual: n}, whatever its content.
C9_ShortBufferRejected ==
    (Len(buf) < 12 /\ pst.pc # "start") =>
        (pst.pc = "err" /\ pst.err = message_too_short(12, Len(buf)))

\* a 4-byte buffer that is not a valid MTI was rejected
C9_Witness ==
    /\ Len(buf) = 4
    /\ ~MessageType_from_bytes(buf).ok
    /\ pst.pc = "err"

----------------------------------------------------------------------------
(* More claims about the bitmap engine, checked under SpecBitmap           *)

\* C18: set(f) with f = 0 or f > 192 returns an error and changes nothing
\* (every is_set(g) and the to_bytes output stay as they were), and
\* is_set(f) is false for such f.
C18_SetOutOfRange ==
    [][(lastOp'.op = "set" /\ lastOp'.field \notin 1..192) =>
           /\ ~lastOp'.ok
           /\ \A g \in 0..255 : Bitmap_is_set(bm', g) = Bitmap_is_set(bm, g)
           /\ Bitmap_to_bytes(bm') = Bitmap_to_bytes(bm)
           /\ ~Bitmap_is_set(bm', lastOp'.field)]_vars

\* set(193) was called on a bitmap that holds all three blocks
C18_Witness ==
    /\ lastOp = [op |-> "set", field |-> 193, ok |-> FALSE]
    /\ IsSome(bm.tertiary)
    /\ Bitmap_is_set(bm, 192)

\* C19: from_bytes of the bytes of to_bytes succeeds and returns an equal
\* bitmap, for every bitmap reached from new() by set and clear calls.
C19_BitmapBytesRoundTrip ==
    LET r == Bitmap_from_bytes(Bitmap_to_bytes(bm))
    IN  r.ok /\ r.bm = bm

----------------------------------------------------------------------------
(* Claims about the builder and the field map, checked under SpecMsg       *)

\* C15: whatever field() / binary_field() / set_field / remove_field calls
\* were made, the field map holds no value under number 1 or 65:
\* has_field(SecondaryBitmap) and has_field(TertiaryBitmap) are false.
C15_IndicatorsHoldNoData == ~has_field(msg, 1) /\ ~has_field(msg, 65)

\* the fields the validator requires for a message type
RequiredFields(mti) ==
    {3, 11, 12, 13}
        \cup (IF mti.function = 0 /\ mti.class \in {1, 2} THEN {2, 4} ELSE {})
        \cup (IF mti.function = 1 THEN {39} ELSE {})

C17_QuickStartBuilds ==
    (/\ api = "builder"
     /\ msg.mti = AUTHORIZATION_REQUEST
     /\ DOMAIN msg.fields = {2, 3, 4}
     /\ phase # "editing") =>
        /\ phase # "rejected"
        /\ phase = "parsed" => (parsed.pc = "ok" /\ parsed.mti = AUTHORIZATION_REQUEST)

----------------------------------------------------------------------------
(* Claims about serialization, checked under SpecSer                       *)

\* C11: to_bytes() returns bytes without panicking for every message and
\* any field values, multi-byte text and values longer or shorter than the
\* field's fixed length included.
C11_SerializationTotal == phase # "panicked"

\* the field data of the serialized message: what follows the MTI and the
\* bitmap
DataPortion == Slice(wire, 4 + Len(Bitmap_to_bytes(msg.bitmap)), Len(wire))

\* the fields of the message that are not bitmap indicators
DataFields == DOMAIN msg.fields \ {1, 65}

\* the message holds exactly one data field, of the given length kind
OnlyField(kind) ==
    \E f \in DataFields : DataFields = {f} /\ definition(f).kind = kind

TheField == CHOOSE f \in DataFields : TRUE

\* the n bytes of a Fixed(n) field: text is left-padded with '0' (Numeric)
\* or right-padded with ' ' to n bytes, or cut to its first n bytes; binary is
\* right-padded with zero bytes or cut
FixedEncoding(def, value) ==
    LET s == value.data
        n == def.len
    IN  IF Len(s) >= n THEN SubSeq(s, 1, n)
        ELSE IF value.kind = "Binary" THEN s \o Repeat(0, n - Len(s))
        ELSE IF def.field_type = "Numeric" THEN Repeat(48, n - Len(s)) \o s
        ELSE s \o Repeat(32, n - Len(s))

\* C12: a Fixed(n) field is emitted as exactly n bytes whatever the stored
\* value: short text padded with '0' on the left (Numeric) or ' ' on the
\* right, long text cut to n bytes, binary zero-padded or cut.
C12_FixedWidth ==
    (phase = "serialized" /\ OnlyField("Fixed")) =>
        /\ Len(DataPortion) = definition(TheField).len
        /\ DataPortion = FixedEncoding(definition(TheField), msg.fields[TheField])

\* the number of decimal digits of a length below 10000
DigitCount(n) == IF n < 10 THEN 1 ELSE IF n < 100 THEN 2 ELSE IF n < 1000 THEN 3 ELSE 4

\* the width of the length prefix of a variable-length field
PrefixDigits(def) == IF def.kind = "LLVar" THEN 2 ELSE 3

\* data is w ASCII digits that spell the byte length of s, followed by s
PrefixedBy(data, w, s) ==
    /\ Len(data) = w + Len(s)
    /\ \A i \in 1..w : IsAsciiDigit(data[i])
    /\ DecValue(SubSeq(data, 1, w)) = Len(s)
    /\ SubSeq(data, w + 1, Len(data)) = s

RECURSIVE AscendingData(_, _)
AscendingData(S, fields) ==
    IF S = {} THEN <<>>
    ELSE LET n == CHOOSE x \in S : \A y \in S : x <= y
         IN  generate_field(n, fields[n]).bytes \o AscendingData(S \ {n}, fields)

----------------------------------------------------------------------------
(* Claims about the MTI model, checked under SpecMti                       *)

\* s is exactly 4 ASCII decimal digits
FourDigits(s) == Len(s) = 4 /\ \A i \in 1..4 : IsAsciiDigit(s[i])

\* C20: for every MessageType from new (any u8 version), a constant or
\* from_str, to_string() is exactly 4 ASCII digits and from_str of it gives
\* the value back; for every string of 4 ASCII digits from_str succeeds and
\* to_string() of the result is the string.
C20_MtiComposeParse ==
    /\ mt.pc \in {"composed", "recomposed", "reparsed"} => FourDigits(mt.out)
    /\ mt.pc = "reparsed" => (mt.reOk /\ mt.reMti = mt.mti)
    /\ (mt.pc = "parsed" /\ FourDigits(mt.input)) => mt.ok
    /\ mt.pc = "recomposed" => mt.out = mt.input

----------------------------------------------------------------------------
(* Claims about the encodings, checked under SpecEnc                       *)

C22_LengthRoundTrip ==
    /\ enc.pc = "len_encoded" => enc.ok
    /\ enc.pc = "len_decoded" => (enc.ok /\ enc.outN = enc.n)

----------------------------------------------------------------------------
(* Claims about PAN validation, checked under SpecPan                      *)

\* C27: validate_pan returns false for a PAN made only of '0' digits, of any
\* length from 13 to 19.
C27_ZeroPanRejected ==
    (/\ pan.pc = "done"
     /\ Len(pan.input) \in 13..19
     /\ \A i \in 1..Len(pan.input) : pan.input[i] = 48) => ~pan.ok

----------------------------------------------------------------------------
(* Claims about the field definitions, checked under SpecLook              *)

\* C23: for every field number n in 2..128 other than 65, the definition
\* the codec uses (Field::definition: type, Fixed / LLVAR / LLLVAR, length)
\* equals the entry ISO8583_1987_TABLE[n].
C23_SingleSourceOfTruth ==
    (look.pc = "done" /\ look.num \in (2..128) \ {65}) =>
        /\ look.spec.some
        /\ look.spec.data_type =
               (IF look.def.field_type = "AlphaNumeric" THEN "Alphanumeric"
                ELSE IF look.def.field_type = "AlphaNumericSpecial"
                     THEN "AlphanumericSpecial"
                ELSE look.def.field_type)
        /\ look.spec.length_type =
               (IF look.def.kind = "LLVar" THEN "Llvar"
                ELSE IF look.def.kind = "LLLVar" THEN "Lllvar"
                ELSE "Fixed")
        /\ look.spec.max_len = look.def.len

\* C26: for every Field f, f.definition().number is f.number(): the
\* definition returned is the entry written for that field number.
C26_LookupIndexCorrect == look.pc = "done" => look.def.number = look.num

----------------------------------------------------------------------------
(* Claims about the two bitmap implementations, checked under SpecTwo      *)

\* C28: after the same sequence of set(f) and clear(f) calls on a fresh
\* bitmap::Bitmap and a fresh bitmap_simd::Bitmap, is_set(g) agrees for
\* every g in 1..192 and the serialized bytes are the same.
C28_BitmapsEquivalent ==
    /\ \A g \in 1..192 : BitVec_is_set(bv, g) = Bitmap_is_set(bm, g)
    /\ BitVec_to_bytes(bv) = Bitmap_to_bytes(bm)

----------------------------------------------------------------------------
(* Claims about STAN generation, checked under SpecStan                    *)

\* C30: in any interleaving every call returns a 6-digit decimal string, and
\* no two of the first 999,999 calls of the process return the same string
\* (the calls made before the run returned the numbers below the run's first
\* counter value, one each).
C30_StanUnique ==
    /\ \A i \in 1..Len(stan.returned) :
           /\ Len(stan.returned[i].str) = 6
           /\ \A k \in 1..6 : IsAsciiDigit(stan.returned[i].str[k])
    /\ \A i \in 1..Len(stan.returned) :
           stan.returned[i].no <= StanModulus - 1 =>
               /\ DecValue(stan.returned[i].str) \notin StanFirst..(stan.base - 1)
               /\ \A j \in 1..Len(stan.returned) :
                      (j # i /\ stan.returned[j].no <= StanModulus - 1) =>
                          stan.returned[j].str # stan.returned[i].str

\* calls 999,998 and 999,999 were fetched by two threads and returned in the
\* opposite order
C30_Witness ==
    /\ Len(stan.returned) >= 2
    /\ stan.returned[1] = [no |-> StanModulus - 1, str |-> <<57, 57, 57, 57, 57, 57>>]
    /\ stan.returned[2] = [no |-> StanModulus - 2, str |-> <<57, 57, 57, 57, 57, 56>>]


\* ---------------------------------------------------------------------------
\* Error reporting, prefix validation and byte fidelity of from_bytes
\* ---------------------------------------------------------------------------

\* The parse failed on a shortfall of bytes while reading a data field.
FieldShortfall ==
    /\ pst.pc = "err"
    /\ pst.lastField # 0
    /\ pst.err.type \in {"MessageTooShort", "FieldLengthMismatch"}

\* C24: whenever from_bytes fails because too few bytes remain while reading
\* field N, the returned error carries field number N.
C24_ErrorNamesField ==
    FieldShortfall => pst.err.field = pst.lastField

\* C25: when from_bytes parses an LLVAR or LLLVAR field, every byte of the
\* length prefix of an accepted field is an ASCII digit '0'..'9'.
C25_PrefixIsDigits ==
    VarFieldParsed =>
        \A i \in 1..PrefixWidth(definition(pst.lastField)) :
            IsAsciiDigit(buf[pst.lastOffset + i])

\* The buffer was accepted and no byte is left after its last parsed field.
AcceptedWhole ==
    /\ pst.pc = "ok"
    /\ pst.offset = Len(buf)

\* C29: for every buffer b that from_bytes accepts with no bytes left over,
\* from_bytes(b).to_bytes() = b.
C29_BytesFidelity ==
    AcceptedWhole =>
        LET g == to_bytes(ParsedMessage(pst))
        IN  ~g.panic /\ g.bytes = buf

====
